---- MODULE Spec2Model ----
(***************************************************************************)
(* Model of the A/B testing client of variant-shopify-setup:               *)
(*   - the Experiment Assignment Engine (TestAssignment, AssignmentManager *)
(*     of src/unnamed/part_003 and the bucketing of ABTestManager,         *)
(*     src/unnamed/part_001);                                              *)
(*   - the event delivery pipeline (QueueManager and the batch sender of   *)
(*     PostgresReporter, src/unnamed/part_004).                            *)
(* Time is counted in seconds (the code counts milliseconds: 30 days are   *)
(* 30 * 24 * 60 * 60 * 1000 ms there and EXPIRY = 2592000 s here).         *)
(***************************************************************************)
EXTENDS Integers, Sequences, FiniteSets, TLC

VARIABLES
    \* ---- Assignment Engine ----
    assignments,   \* AssignmentManager.assignments: Map testId -> TestAssignment
    stored,        \* localStorage['hw-abt-assignments']: testId -> storage record
    now,           \* Date.now(), in seconds
    last,          \* history: the last operation of the engine
    \* ---- Delivery pipeline ----
    queue,         \* QueueManager.queue
    persisted,     \* localStorage['pg_event_queue'] (<<>> when the key is absent)
    nextEvent,     \* number of the next event to be enqueued
    isProcessing,  \* PostgresReporter.isProcessing
    failedAttempts,\* PostgresReporter.failedAttempts
    batch,         \* the batch taken by the last processQueue that started a send
    active,        \* number of setupEventProcessing closures whose interval runs
    listeners,     \* number of visibilitychange listeners (one per closure)
    timers,        \* number of pending 60 s cooldown timeouts
    visible,       \* document.visibilityState = 'visible'
    delivered,     \* history: events of successfully sent batches, in send order
    toggles,       \* history: number of visibility changes so far
    failures,      \* history: number of failed sends so far
    lastOp,        \* history: the last pipeline step
    inflight,      \* history: number of sendEvents calls of the sender not yet settled
    \* ---- Tracking API of the reporter ----
    events,        \* history: events[n] is the payload of the event numbered n
    processedEvents, \* EventDeduplicator.processedEvents: key -> time of the mark
    requests,      \* RateLimiter.requests
    suspended,     \* callers of queueEvent waiting in checkLimit, in call order
    returns,       \* history: the times at which checkLimit returned
    result,        \* history: outcome of the last call of the tracking API
    retry,         \* the sendEvents call in progress and its withRetry loop
    activeTests,   \* localStorage['pg_active_tests']: testId -> pixel format
    instance       \* AssignmentManager.instance and PostgresReporter.instance are set

avars == <<assignments, stored, activeTests, now, last>>
qvars == <<queue, persisted, nextEvent, isProcessing, failedAttempts, batch,
           active, listeners, timers, visible, delivered, toggles, failures, lastOp,
           inflight>>
tvars == <<events, processedEvents, requests, suspended, returns, result>>
vars == <<assignments, stored, now, last,
          queue, persisted, nextEvent, isProcessing, failedAttempts, batch,
          active, listeners, timers, visible, delivered, toggles, failures, lastOp,
          inflight, events, processedEvents, requests, suspended, returns, result,
          retry, activeTests, instance>>

----------------------------------------------------------------------------
(* Bounds of the model *)

\* the clock stops at MaxNow seconds (30 days)
MaxNow == 2592000
\* a test has at most MaxVariants non-zero variants (test.variantsCount)
MaxVariants == 2

(* Program constants *)

\* 30 * 24 * 60 * 60 * 1000 ms, in seconds
EXPIRY == 2592000

TestIds == {"t1", "t2"}
\* resolved locations: a standard group and the URL of a page-specific test
Groups == {"global", "/promo"}
\* test.location of the settings: t2 may also be moved to its own page
LocationsOf(id) == IF id = "t2" THEN {"global", "page_specific"} ELSE {"global"}
\* test.mode of the settings
RawModes == {"test", "v0", "v1"}
\* values of settings.traffic[...]
TrafficValues == {0, 50, 100}
\* Math.random() * 100
RDraws == {49, 50}
\* seconds by which the clock advances between two operations: 15 and 30 days
TimeSteps == {1296000, 2592000}

----------------------------------------------------------------------------
(* TestAssignment *)

Undefined == "undefined"

TestAssignment(testId, data, t) ==
    [testId |-> testId,
     type |-> data.type,
     mode |-> data.mode,
     pageGroup |-> data.pageGroup,
     timestamp |-> t,
     tested_variant |-> data.tested_variant,
     assigned_variant |-> data.assigned_variant]

IsValidLate(a, t) ==
    /\ \A f \in {"testId", "assigned_variant", "type", "mode", "pageGroup"} :
          a[f] # Undefined
    /\ (t - a.timestamp) <= EXPIRY

IsValid(a, t) ==
    /\ \A f \in {"testId", "assigned_variant", "type", "mode", "pageGroup"} :
          a[f] # Undefined
    /\ (t - a.timestamp) < EXPIRY

ToStorageFormat(a) == a

ToPixelFormat(a) ==
    [testId |-> a.testId, type |-> a.type, mode |-> a.mode, group |-> a.pageGroup,
     tested_variant |-> a.tested_variant, assigned_variant |-> a.assigned_variant]

FromStorage(data, t) ==
    [TestAssignment(data.testId, data, t) EXCEPT
        !.tested_variant = data.tested_variant,
        !.assigned_variant = data.assigned_variant]

----------------------------------------------------------------------------
(* AssignmentManager: operators on st = [a |-> the map, s |-> localStorage] *)

EmptyMap == [x \in {} |-> 0]

MapSet(m, k, v) == [x \in (DOMAIN m) \cup {k} |-> IF x = k THEN v ELSE m[x]]

GroupKey(a) == IF a.pageGroup = "" THEN "default" ELSE a.pageGroup

TestedVariantRule(nonZeroCount, a) ==
    IF nonZeroCount = 0 THEN "0"
    ELSE IF nonZeroCount = 1
         THEN (IF a.assigned_variant # "0" THEN a.assigned_variant ELSE "excluded")
         ELSE "excluded"

RecalculateNoExclusion(m) ==
    [tid \in DOMAIN m |->
        [m[tid] EXCEPT !.tested_variant =
            IF m[tid].assigned_variant # "0" THEN m[tid].assigned_variant ELSE "0"]]

RecalculateTestedVariants(m) ==
    [tid \in DOMAIN m |->
        LET groupAssignments == {x \in DOMAIN m : GroupKey(m[x]) = GroupKey(m[tid])}
            nonZeroAssignments == {x \in groupAssignments : m[x].assigned_variant # "0"}
        IN  [m[tid] EXCEPT !.tested_variant =
                TestedVariantRule(Cardinality(nonZeroAssignments), m[tid])]]

StorageDataAll(m, t) == [tid \in DOMAIN m |-> ToStorageFormat(m[tid])]

StorageData(m, t) ==
    LET valid == {tid \in DOMAIN m : IsValid(m[tid], t)}
    IN  [tid \in valid |-> ToStorageFormat(m[tid])]

PixelData(m, t) ==
    LET valid == {tid \in DOMAIN m : IsValid(m[tid], t)}
    IN  [tid \in valid |-> ToPixelFormat(m[tid])]

Persist(m, t) ==
    LET m2 == RecalculateTestedVariants(m)
    IN  [a |-> m2, s |-> StorageData(m2, t), p |-> PixelData(m2, t)]

SetAssignmentOp(st, testId, data, t) ==
    Persist(MapSet(st.a, testId, TestAssignment(testId, data, t)), t)

\* the result of getAssignment as a set: {} for null
GetAssignment(m, testId, t) ==
    IF testId \in DOMAIN m /\ IsValid(m[testId], t) THEN {m[testId]} ELSE {}

GetAllAssignments(m, t) == {m[tid] : tid \in {x \in DOMAIN m : IsValid(m[x], t)}}

CleanupOpNothing(st, t) == st

CleanupOp(st, t) ==
    LET keep == {tid \in DOMAIN st.a : IsValid(st.a[tid], t)}
        m2 == [tid \in keep |-> st.a[tid]]
    IN  IF keep # DOMAIN st.a THEN Persist(m2, t) ELSE st

LoadFromStorage(s, t) ==
    LET loaded == [tid \in DOMAIN s |-> FromStorage(s[tid], t)]
        ok == {tid \in DOMAIN s : IsValid(loaded[tid], t)}
    IN  [tid \in ok |-> loaded[tid]]

SetupCore(s, preview, t) ==
    Persist(IF preview THEN EmptyMap ELSE LoadFromStorage(s, t), t)

----------------------------------------------------------------------------
(* ABTestManager: the bucketing *)

\* modeValue.replace('v', '') for the modes of RawModes
StripV(modeValue) ==
    CASE modeValue = "v0" -> "0"
      [] modeValue = "v1" -> "1"
      [] OTHER -> ""

StartsWithV(modeValue) == modeValue \in {"v0", "v1"}

\* one element of this.allTests, from one test of settings.tests
LoadTest(test) ==
    LET modeValue == test.mode
        forced == modeValue # "test" /\ StartsWithV(modeValue)
        originalLocation == test.location
    IN  [id |-> test.id,
         mode |-> IF forced THEN "forced" ELSE "test",
         forcedVariant |-> IF forced THEN StripV(modeValue) ELSE "null",
         location |-> IF originalLocation = "page_specific" /\ test.page_specific_url # ""
                      THEN test.page_specific_url ELSE originalLocation,
         originalLocation |-> originalLocation,
         possibleNonZeroVariants |-> test.variantsCount]

StandardGroups == {"global", "homepage", "product", "collection", "cart", "checkout"}

\* the traffic percentage assignGroup reads for a group
TrafficOf(trafficConfig, group, firstUnforced) ==
    IF firstUnforced.originalLocation = "page_specific"
    THEN trafficConfig["page_specific"]
    ELSE IF group \in StandardGroups THEN trafficConfig[group] ELSE 0

\* setOrKeepAssignment of the older ABTestManager (src/unnamed/part_000 and the
\* bundle src/ABTestingProject/public/ab-testing.js): it always sets
SetOrKeepAssignmentLegacy(st, testObj, data, t) ==
    SetAssignmentOp(st, testObj.id, data, t)

\* setOrKeepAssignment of the latest ABTestManager (src/unnamed/part_001)
SetOrKeepAssignment(st, testObj, data, t) ==
    IF GetAssignment(st.a, testObj.id, t) # {}
    THEN st
    ELSE SetAssignmentOp(st, testObj.id, data, t)

\* this.setOrKeepAssignment(...) as the loaded script defines it: legacy is
\* TRUE for the older ABTestManager
SetOrKeep(legacy, st, testObj, data, t) ==
    IF legacy
    THEN SetOrKeepAssignmentLegacy(st, testObj, data, t)
    ELSE SetOrKeepAssignment(st, testObj, data, t)

ForcedDataTest(ft, group) ==
    LET forcedVar == IF ft.forcedVariant \in {"null", ""} THEN "0" ELSE ft.forcedVariant
    IN  [assigned_variant |-> forcedVar,
         tested_variant |-> forcedVar,
         type |-> "test",
         mode |-> "forced",
         pageGroup |-> group]

ForcedData(ft, group) ==
    LET forcedVar == IF ft.forcedVariant \in {"null", ""} THEN "0" ELSE ft.forcedVariant
    IN  [assigned_variant |-> forcedVar,
         tested_variant |-> forcedVar,
         type |-> IF forcedVar = "0" THEN "control" ELSE "test",
         mode |-> IF forcedVar = "0" THEN "forced-0" ELSE "forced",
         pageGroup |-> group]

PureControlDataExcluded(group) ==
    [assigned_variant |-> "0", tested_variant |-> "0", type |-> "control",
     mode |-> "excluded", pageGroup |-> group]

PureControlData(group) ==
    [assigned_variant |-> "0", tested_variant |-> "0", type |-> "control",
     mode |-> "pure-control", pageGroup |-> group]

ChosenData(finalVar, group) ==
    [assigned_variant |-> finalVar, tested_variant |-> finalVar, type |-> "test",
     mode |-> "probabilistic", pageGroup |-> group]

ExcludedDataPureControl(group) ==
    [assigned_variant |-> "0", tested_variant |-> "0", type |-> "control",
     mode |-> "pure-control", pageGroup |-> group]

ExcludedData(group) ==
    [assigned_variant |-> "0", tested_variant |-> "0", type |-> "control",
     mode |-> "excluded", pageGroup |-> group]

\* String(i + 1) of possibleNonZeroVariants, for 0-based index pick2
VariantName(pick2) == IF pick2 = 0 THEN "1" ELSE IF pick2 = 1 THEN "2" ELSE "3"

RECURSIVE ForEachForced(_, _, _, _, _, _)
ForEachForced(legacy, st, forcedTests, i, group, t) ==
    IF i > Len(forcedTests) THEN st
    ELSE ForEachForced(legacy,
            SetOrKeep(legacy, st, forcedTests[i], ForcedData(forcedTests[i], group), t),
            forcedTests, i + 1, group, t)

RECURSIVE ForEachControl(_, _, _, _, _, _)
ForEachControl(legacy, st, unforcedTests, i, group, t) ==
    IF i > Len(unforcedTests) THEN st
    ELSE ForEachControl(legacy,
            SetOrKeep(legacy, st, unforcedTests[i], PureControlData(group), t),
            unforcedTests, i + 1, group, t)

RECURSIVE ForEachUnforced(_, _, _, _, _, _, _, _)
ForEachUnforced(legacy, st, unforcedTests, i, chosenIndex, pick2, group, t) ==
    IF i > Len(unforcedTests) THEN st
    ELSE ForEachUnforced(legacy,
            SetOrKeep(legacy, st, unforcedTests[i],
                IF i - 1 = chosenIndex
                THEN ChosenData(VariantName(pick2), group)
                ELSE ExcludedData(group), t),
            unforcedTests, i + 1, chosenIndex, pick2, group, t)

IsForcedTest(x) == x.mode = "forced"
IsUnforcedTest(x) == x.mode = "test"

\* assignGroup(group, tests) with traffic percentage traffic and the draws
\* rng (Math.random() * 100), chosenIndex and pick2 (0-based)
AssignGroupOp(legacy, st, group, tests, trafficConfig, rng, chosenIndex, pick2, t) ==
    LET forcedTests == SelectSeq(tests, IsForcedTest)
        unforcedTests == SelectSeq(tests, IsUnforcedTest)
        st1 == ForEachForced(legacy, st, forcedTests, 1, group, t)
    IN  IF Len(unforcedTests) = 0 THEN st1
        ELSE IF rng >= TrafficOf(trafficConfig, group, unforcedTests[1])
             THEN ForEachControl(legacy, st1, unforcedTests, 1, group, t)
             ELSE ForEachUnforced(legacy, st1, unforcedTests, 1, chosenIndex, pick2, group, t)

----------------------------------------------------------------------------
(* Delivery pipeline: bounds and constants *)

\* at most MaxEvents events are enqueued
MaxEvents == 3
\* config.batchSize of the reporter
BatchSize == 2
\* at most MaxFailures sends fail
MaxFailures == 6
\* the page changes visibility at most MaxToggles times
MaxToggles == 2

\* config.maxConsecutiveFailures || 3
MaxConsecutiveFailures == 3

(* QueueManager *)

Min(a, b) == IF a < b THEN a ELSE b

Add(q, evt) == Append(q, evt)

GetBatchNewest(q, size) == SubSeq(q, Len(q) - Min(size, Len(q)) + 1, Len(q))

GetBatch(q, size) == SubSeq(q, 1, Min(size, Len(q)))

RemoveBatchAll(q, size) == <<>>

RemoveBatch(q, size) == SubSeq(q, Min(size, Len(q)) + 1, Len(q))

PersistQueueFirst(q, ls) == IF Len(q) > 0 THEN <<q[1]>> ELSE ls

PersistQueue(q, ls) == IF Len(q) > 0 THEN q ELSE ls

LoadPersistedQueueKeep(q, ls) == [queue |-> q \o ls, persisted |-> ls]

\* loadPersistedQueue on the queue q of the constructor: the stored array is
\* pushed and the key removed (ls = <<>>: the key is absent)
LoadPersistedQueue(q, ls) == [queue |-> q \o ls, persisted |-> <<>>]

(* RateLimiter *)

\* maxRequests of the limiter (50 in the code), scaled down
MaxRequests == 3
\* timeWindow: 60000 ms, in seconds
TimeWindow == 60

InWindow(reqs, t) ==
    LET Recent(x) == t - x < TimeWindow
    IN  SelectSeq(reqs, Recent)

\* checkLimit up to its await: the filtered requests, whether the caller is
\* suspended, and the time at which its timeout is due
CheckLimit(reqs, t) ==
    LET f == InWindow(reqs, t)
    IN  IF Len(f) >= MaxRequests
        THEN [requests |-> f, waits |-> TRUE, wake |-> t + (TimeWindow - (t - f[1]))]
        ELSE [requests |-> Append(f, t), waits |-> FALSE, wake |-> t]

----------------------------------------------------------------------------
(* Event payloads: what createEventPayload builds, as far as the pipeline
   reads it. type and data tell whether the field is present; user_id and
   session_id whether the identifier is. The payload carries the test id in
   data.event_data.test_id (event_test_id here); it has no data.test_id. *)

Payload(eventName, testId, t) ==
    [type |-> TRUE, data |-> TRUE, user_id |-> TRUE, session_id |-> TRUE,
     event_name |-> eventName, test_id |-> Undefined, event_test_id |-> testId,
     client_timestamp |-> t]

\* an event of a caller of queueEvent other than the assignment tracking
GenericEvent(t) == Payload("custom", "", t)

\* the outcome of a call of the tracking API, the event it was about and the
\* argument of the call
Outcome(out, evt) == [out |-> out, evt |-> evt, input |-> evt]

----------------------------------------------------------------------------
(* EventDeduplicator *)

\* expiryTime: 30 * 60 * 1000 ms, in seconds
EXPIRY_TIME == 1800

\* session_id:test_id:event_name:client_timestamp; the session id is the same
\* for all events of a page
GenerateKey(evt) ==
    <<evt.session_id, evt.test_id, evt.event_name, evt.client_timestamp>>

IsDuplicateNoExpiry(pe, evt, t) == GenerateKey(evt) \in DOMAIN pe

IsDuplicate(pe, evt, t) ==
    /\ GenerateKey(evt) \in DOMAIN pe
    /\ ~(t - pe[GenerateKey(evt)] > EXPIRY_TIME)

\* processedEvents after isDuplicate: an expired entry of the key is deleted
AfterIsDuplicate(pe, evt, t) ==
    IF GenerateKey(evt) \in DOMAIN pe /\ ~IsDuplicate(pe, evt, t)
    THEN [k \in (DOMAIN pe) \ {GenerateKey(evt)} |-> pe[k]]
    ELSE pe

MarkProcessed(pe, evt, t) == MapSet(pe, GenerateKey(evt), t)

DedupCleanupOp(pe, t) ==
    [k \in {x \in DOMAIN pe : ~(t - pe[x] > EXPIRY_TIME)} |-> pe[k]]

----------------------------------------------------------------------------
(* Tracking API of PostgresReporter: operators on a record T of the fields
   a, s (assignment map and its stored record), queue, nextEvent, events,
   processedEvents, requests, suspended, returns, result *)

EventValidEitherId(evt) ==
    evt.type /\ evt.data /\ (evt.user_id \/ evt.session_id)

\* the two checks of queueEvent pass
EventValid(evt) ==
    /\ evt.type /\ evt.data
    /\ evt.user_id /\ evt.session_id

\* queueManager.add(evt): the event gets the next number
QueueAdd(T, evt) ==
    [T EXCEPT !.queue = Add(@, T.nextEvent),
              !.nextEvent = @ + 1,
              !.events = Append(@, evt)]

RemoveAt(sq, i) == SubSeq(sq, 1, i - 1) \o SubSeq(sq, i + 1, Len(sq))

RECURSIVE QueueEventOp(_, _, _, _)

\* _trackImpression / trackImpression from the isDuplicate check on
DedupPath(T, evt, t) ==
    LET T1 == [T EXCEPT !.processedEvents = AfterIsDuplicate(@, evt, t)]
    IN  IF IsDuplicate(T.processedEvents, evt, t)
        THEN [T1 EXCEPT !.result = Outcome("duplicate", evt)]
        ELSE QueueEventOp(T1, evt, "mark", t)

\* _trackImpression / trackImpression for the assignment of testId
TrackImpressionOp(T, testId, t) ==
    DedupPath(T, Payload("test_impression", testId, t), t)

\* what follows the return of checkLimit in queueEvent and in its caller:
\* cont is "none" (queueEvent alone), "mark" (the rest of _trackImpression) or
\* "impression" (the rest of trackAssignment)
AfterCheckLimit(T, evt, cont, t) ==
    LET T1 == [QueueAdd(T, evt) EXCEPT !.result = Outcome("queued", evt)]
    IN  CASE cont = "none" -> T1
          [] cont = "mark" ->
               [T1 EXCEPT !.processedEvents = MarkProcessed(@, evt, t)]
          [] cont = "impression" -> TrackImpressionOp(T1, evt.event_test_id, t)

\* queueEvent(evt), up to the suspension in checkLimit if there is one
QueueEventOp(T, evt, cont, t) ==
    IF ~EventValid(evt)
    THEN [T EXCEPT !.result = Outcome("ValidationError", evt)]
    ELSE LET c == CheckLimit(T.requests, t)
         IN  IF c.waits
             THEN [T EXCEPT !.requests = c.requests,
                            !.suspended = Append(@, [wake |-> c.wake, stamp |-> t,
                                                     evt |-> evt, cont |-> cont]),
                            !.result = Outcome("suspended", evt)]
             ELSE AfterCheckLimit([T EXCEPT !.requests = c.requests,
                                            !.returns = Append(@, t)], evt, cont, t)

\* the timeout of the i-th suspended caller fires: checkLimit pushes the time
\* of the call and returns, and the caller goes on
ResumeOp(T, i, t) ==
    LET e == T.suspended[i]
        T1 == [T EXCEPT !.suspended = RemoveAt(@, i),
                        !.requests = Append(@, e.stamp),
                        !.returns = Append(@, t)]
    IN  AfterCheckLimit(T1, e.evt, e.cont, t)

\* a field of trackAssignment's argument is missing (falsy)
Missing == ""

\* the outcome of trackAssignment(f) when it returns or throws before queueEvent
TrackOutcome(out, f, t) ==
    [Outcome(out, Payload("test_assignment", f.testId, t)) EXCEPT !.input = f]

TrackAssignmentNoCheck(T, f, t) ==
    IF f.testId = Missing \/ f.assignmentType = Missing
         \/ f.assignmentMode = Missing \/ f.pageGroup = Missing
    THEN [T EXCEPT !.result = TrackOutcome("ValidationError", f, t)]
    ELSE LET asgData == [type |-> f.assignmentType,
                         mode |-> f.assignmentMode,
                         pageGroup |-> f.pageGroup,
                         tested_variant |-> IF f.tested_variant = Missing
                                            THEN "null" ELSE f.tested_variant,
                         assigned_variant |-> IF f.assigned_variant = Missing
                                              THEN "0" ELSE f.assigned_variant]
             st == SetAssignmentOp([a |-> T.a, s |-> T.s, p |-> T.p], f.testId, asgData, t)
             evt == Payload("test_assignment", f.testId, t)
             T1 == QueueEventOp([T EXCEPT !.a = st.a, !.s = st.s, !.p = st.p], evt, "impression", t)
         IN  [T1 EXCEPT !.result.input = f]

TrackAssignmentNoValidation(T, f, t) ==
    IF f.testId # Missing /\ GetAssignment(T.a, f.testId, t) # {}
    THEN [T EXCEPT !.result = TrackOutcome("noop", f, t)]
    ELSE LET asgData == [type |-> f.assignmentType,
                         mode |-> f.assignmentMode,
                         pageGroup |-> f.pageGroup,
                         tested_variant |-> IF f.tested_variant = Missing
                                            THEN "null" ELSE f.tested_variant,
                         assigned_variant |-> IF f.assigned_variant = Missing
                                              THEN "0" ELSE f.assigned_variant]
             st == SetAssignmentOp([a |-> T.a, s |-> T.s, p |-> T.p], f.testId, asgData, t)
             evt == Payload("test_assignment", f.testId, t)
             T1 == QueueEventOp([T EXCEPT !.a = st.a, !.s = st.s, !.p = st.p], evt, "impression", t)
         IN  [T1 EXCEPT !.result.input = f]

TrackAssignmentOp(T, f, t) ==
    IF f.testId = Missing \/ f.assignmentType = Missing
         \/ f.assignmentMode = Missing \/ f.pageGroup = Missing
    THEN [T EXCEPT !.result = TrackOutcome("ValidationError", f, t)]
    ELSE IF GetAssignment(T.a, f.testId, t) # {}
    THEN [T EXCEPT !.result = TrackOutcome("noop", f, t)]
    ELSE LET asgData == [type |-> f.assignmentType,
                         mode |-> f.assignmentMode,
                         pageGroup |-> f.pageGroup,
                         tested_variant |-> IF f.tested_variant = Missing
                                            THEN "null" ELSE f.tested_variant,
                         assigned_variant |-> IF f.assigned_variant = Missing
                                              THEN "0" ELSE f.assigned_variant]
             st == SetAssignmentOp([a |-> T.a, s |-> T.s, p |-> T.p], f.testId, asgData, t)
             evt == Payload("test_assignment", f.testId, t)
             T1 == QueueEventOp([T EXCEPT !.a = st.a, !.s = st.s, !.p = st.p], evt, "impression", t)
         IN  [T1 EXCEPT !.result.input = f]

----------------------------------------------------------------------------
(* TrackingCore.withRetry and PostgresReporter.sendEvents; delays in ms *)

\* config.retryAttempts is one of 1..MaxRetryAttempts
MaxRetryAttempts == 3

\* maxDelay of the retryConfig that new TrackingCore() builds
MaxDelay == 30000

\* Math.random() * 1000 lies in [0, JitterRange)
JitterRange == 1000

RetryAttemptsValues == 1..MaxRetryAttempts

\* config.retryDelay: the default, and one that reaches maxDelay
RetryDelayValues == {1000, 16000}

JitterValues == {0, 500, JitterRange - 1}

\* how one call of the operation ends: a 2xx response with a JSON body, a
\* non-2xx response, fetch rejecting, the timeout of the race firing first, a
\* 2xx response whose body is not JSON
Outcomes == {"ok", "http", "network", "timeout", "nonjson"}

FailedOutcomes == Outcomes \ {"ok"}

\* what sendEvents is called with
BatchKinds == {"valid", "invalid", "empty"}

Body == "json"

AttemptError(outcome) ==
    CASE outcome = "http" -> "HTTP error: 500"
      [] outcome = "network" -> "TypeError: Failed to fetch"
      [] outcome = "timeout" -> "Operation timed out"
      [] outcome = "nonjson" -> "SyntaxError: Unexpected token"
      [] OTHER -> Undefined

RECURSIVE Pow2(_)
Pow2(a) == IF a = 0 THEN 1 ELSE 2 * Pow2(a - 1)

BackoffDelayUncapped(config, attempt, jitter) ==
    config.baseDelay * Pow2(attempt) + jitter

\* Math.min(baseDelay * Math.pow(2, attempt) + Math.random() * 1000, maxDelay)
BackoffDelay(config, attempt, jitter) ==
    Min(config.baseDelay * Pow2(attempt) + jitter, config.maxDelay)

LoopContinuesOnceMore(config, attempt) == attempt <= config.maxRetries

\* the condition of the for loop
LoopContinues(config, attempt) == attempt < config.maxRetries

\* if (attempt < config.maxRetries - 1)
HasNextAttempt(config, attempt) == attempt < config.maxRetries - 1

\* { ...this.retryConfig, ...options } with the options of sendEvents
RetryConfig(retryAttempts, retryDelay) ==
    [maxRetries |-> retryAttempts, baseDelay |-> retryDelay, maxDelay |-> MaxDelay]

\* which branch of processQueue follows await this.sendEvents(batch)
ProcessQueuePath(send) == IF send = "resolved" THEN "success" ELSE "failure"

\* sendEvents settles
SendSettles(r, send, value) ==
    [r EXCEPT !.send = send, !.sendValue = value, !.path = ProcessQueuePath(send)]

\* no sendEvents call yet
RetryIdle ==
    [second |-> FALSE, config |-> RetryConfig(3, 1000), attempt |-> 0,
     phase |-> "idle", calls |-> 0, outcomes |-> <<>>, waits |-> <<>>,
     lastError |-> Undefined, value |-> Undefined,
     send |-> "none", sendValue |-> Undefined, path |-> "none"]

\* withRetry returns result; sendEvents of the first copy returns resp, the
\* second copy reads the undeclared name resp and rethrows the ReferenceError
WithRetryReturns(r, res) ==
    LET r1 == [r EXCEPT !.phase = "returned", !.value = res]
    IN  IF r.second
        THEN SendSettles(r1, "rejected", "ReferenceError: resp is not defined")
        ELSE SendSettles(r1, "resolved", res)

\* throw lastError; the catch of sendEvents logs and rethrows
WithRetryThrows(r) ==
    SendSettles([r EXCEPT !.phase = "threw", !.value = r.lastError],
                "rejected", r.lastError)

\* the head of the for loop: the next call of operation(), or the end
EnterLoop(r) ==
    IF LoopContinues(r.config, r.attempt)
    THEN [r EXCEPT !.phase = "calling", !.calls = @ + 1]
    ELSE WithRetryThrows(r)

\* sendEvents(events) up to its first await
SendEventsOp(second, kind, config) ==
    LET r0 == [RetryIdle EXCEPT !.second = second, !.config = config]
    IN  CASE kind = "empty" -> SendSettles(r0, "resolved", Undefined)
          [] kind = "invalid" ->
                SendSettles(r0, "rejected", "Found 1 events missing user/session ID")
          [] OTHER -> EnterLoop([r0 EXCEPT !.send = "pending"])

\* the race of an attempt is won by the result of operation()
AttemptSucceedsOp(r) ==
    WithRetryReturns([r EXCEPT !.outcomes = Append(@, "ok")], Body)

\* the catch block of an attempt
AttemptFailsOp(r, outcome, jitter) ==
    LET r1 == [r EXCEPT !.outcomes = Append(@, outcome),
                        !.lastError = AttemptError(outcome)]
    IN  IF HasNextAttempt(r.config, r.attempt)
        THEN [r1 EXCEPT !.phase = "waiting",
                        !.waits = Append(@, BackoffDelay(r.config, r.attempt, jitter))]
        ELSE EnterLoop([r1 EXCEPT !.attempt = @ + 1])

\* the timer of the wait fires: attempt++ and the head of the loop
BackoffEndsOp(r) == EnterLoop([r EXCEPT !.attempt = @ + 1])

----------------------------------------------------------------------------
(* localStorage calls that throw: which call of an operation fails *)

\* persist: neither setItem, the one of the assignments record, the one of the
\* active-tests record
WriteFailures == {"none", "assignments", "activeTests"}

\* loadFromStorage and loadPersistedQueue: getItem or JSON.parse (and, for the
\* queue, removeItem)
ReadFailures == {"none", "getItem", "parse"}

QueueReadFailures == ReadFailures \cup {"removeItem"}

StorageError == "StorageError"

CatchRethrow(r) == r

\* catch (err) { console.error(...) }: the error ends here
Catch(r) == [r EXCEPT !.error = Undefined]

\* persist() of the AssignmentManager when a setItem throws
PersistTry(st, m, t, fail) ==
    LET m2 == RecalculateTestedVariants(m)
    IN  Catch(CASE fail = "assignments" ->
                     [a |-> m2, s |-> st.s, p |-> st.p, error |-> StorageError]
                [] fail = "activeTests" ->
                     [a |-> m2, s |-> StorageData(m2, t), p |-> st.p, error |-> StorageError]
                [] OTHER ->
                     [a |-> m2, s |-> StorageData(m2, t), p |-> PixelData(m2, t),
                      error |-> Undefined])

\* setAssignment: its catch rethrows what reaches it
SetAssignmentTry(st, testId, data, t, fail) ==
    PersistTry(st, MapSet(st.a, testId, TestAssignment(testId, data, t)), t, fail)

CleanupTry(st, t, fail) ==
    LET keep == {tid \in DOMAIN st.a : IsValid(st.a[tid], t)}
        m2 == [tid \in keep |-> st.a[tid]]
    IN  Catch(IF keep # DOMAIN st.a
              THEN PersistTry(st, m2, t, fail)
              ELSE [a |-> st.a, s |-> st.s, p |-> st.p, error |-> Undefined])

\* loadFromStorage into the empty map
LoadFromStorageTry(s, t, fail) ==
    Catch(IF fail = "none"
          THEN [a |-> LoadFromStorage(s, t), error |-> Undefined]
          ELSE [a |-> EmptyMap, error |-> StorageError])

\* setupCore: loadFromStorage unless in preview mode, then persist
SetupCoreTry(st, preview, t, readFail, writeFail) ==
    LET loaded == IF preview
                  THEN [a |-> EmptyMap, error |-> Undefined]
                  ELSE LoadFromStorageTry(st.s, t, readFail)
        r == PersistTry(st, loaded.a, t, writeFail)
    IN  [r EXCEPT !.error = IF loaded.error # Undefined THEN loaded.error ELSE @]

PersistQueueTry(q, ls, fail) ==
    Catch(IF fail
          THEN [persisted |-> ls, error |-> StorageError]
          ELSE [persisted |-> PersistQueue(q, ls), error |-> Undefined])

LoadPersistedQueueTry(q, ls, fail) ==
    Catch(CASE fail = "none" ->
                  [queue |-> LoadPersistedQueue(q, ls).queue,
                   persisted |-> LoadPersistedQueue(q, ls).persisted, error |-> Undefined]
            [] fail = "removeItem" /\ ls # <<>> ->
                  [queue |-> q \o ls, persisted |-> ls, error |-> StorageError]
            [] OTHER -> [queue |-> q, persisted |-> ls, error |-> StorageError])

----------------------------------------------------------------------------
(* The singleton constructors *)

\* the static instance fields once both constructors have run to their end
Constructed == [manager |-> TRUE, reporter |-> TRUE]

\* the static instance fields when no constructor has run to its end
NotConstructed == [manager |-> FALSE, reporter |-> FALSE]

\* the objects of the reporter and the closures of setupEventProcessing
ReporterState ==
    [queue |-> queue, persisted |-> persisted, processedEvents |-> processedEvents,
     requests |-> requests, suspended |-> suspended, isProcessing |-> isProcessing,
     failedAttempts |-> failedAttempts, active |-> active, listeners |-> listeners]

\* setupState and setupEventProcessing of a new reporter: an empty rate
\* limiter and deduplicator, a queue adopted from the snapshot, one more
\* interval and one more visibility listener
SetupState(R) ==
    [R EXCEPT !.queue = LoadPersistedQueue(<<>>, R.persisted).queue,
              !.persisted = LoadPersistedQueue(<<>>, R.persisted).persisted,
              !.processedEvents = EmptyMap,
              !.requests = <<>>,
              !.suspended = <<>>,
              !.isProcessing = FALSE,
              !.failedAttempts = 0,
              !.active = R.active + 1,
              !.listeners = R.listeners + 1]

\* new AssignmentManager(): the first instance when there is one, else
\* setupCore and the instance is recorded
AssignmentManagerNew(inst, st, t) ==
    IF inst.manager THEN [instance |-> inst, st |-> st]
    ELSE [instance |-> [inst EXCEPT !.manager = TRUE], st |-> SetupCore(st.s, FALSE, t)]

\* new PostgresReporter(config) with the guard on the static instance left out
PostgresReporterNewUnguarded(inst, st, R, configOk, t) ==
    IF ~configOk
    THEN [instance |-> inst, st |-> st, R |-> R, error |-> "Missing config"]
    ELSE LET am == AssignmentManagerNew(inst, st, t)
         IN  [instance |-> [am.instance EXCEPT !.reporter = TRUE], st |-> am.st,
              R |-> SetupState(R), error |-> Undefined]

\* new PostgresReporter(config): the first instance when there is one; else
\* validateConfig throws on a config without endpoint or key, and otherwise
\* initializeCore (with its new AssignmentManager()), setupState and
\* setupEventProcessing run and the instance is recorded
PostgresReporterNew(inst, st, R, configOk, t) ==
    IF inst.reporter
    THEN [instance |-> inst, st |-> st, R |-> R, error |-> Undefined]
    ELSE IF ~configOk
    THEN [instance |-> inst, st |-> st, R |-> R, error |-> "Missing config"]
    ELSE LET am == AssignmentManagerNew(inst, st, t)
         IN  [instance |-> [am.instance EXCEPT !.reporter = TRUE], st |-> am.st,
              R |-> SetupState(R), error |-> Undefined]

----------------------------------------------------------------------------
(* Initial state: a first page load, empty localStorage, both managers built *)

Init ==
    /\ assignments = SetupCore(EmptyMap, FALSE, 0).a
    /\ stored = SetupCore(EmptyMap, FALSE, 0).s
    /\ activeTests = SetupCore(EmptyMap, FALSE, 0).p
    /\ now = 0
    /\ last = [op |-> "init"]
    /\ queue = <<>>
    /\ persisted = <<>>
    /\ nextEvent = 1
    /\ isProcessing = FALSE
    /\ failedAttempts = 0
    /\ batch = <<>>
    /\ active = 1
    /\ listeners = 1
    /\ timers = 0
    /\ visible = TRUE
    /\ delivered = <<>>
    /\ toggles = 0
    /\ failures = 0
    /\ lastOp = "init"
    /\ inflight = 0
    /\ events = <<>>
    /\ processedEvents = EmptyMap
    /\ requests = <<>>
    /\ suspended = <<>>
    /\ returns = <<>>
    /\ result = Outcome("init", GenericEvent(0))
    /\ retry = RetryIdle
    /\ instance = Constructed

----------------------------------------------------------------------------
(* Actions of the Assignment Engine *)

State == [a |-> assignments, s |-> stored, p |-> activeTests]

TestOrder == <<"t1", "t2">>

\* settings.tests for one group: the tests ids with modes modeOf, in id order
Catalog(ids, modeOf, location, variantsCount) ==
    LET InIds(x) == x \in ids
        order == SelectSeq(TestOrder, InIds)
    IN  [i \in 1..Len(order) |->
            LoadTest([id |-> order[i],
                      mode |-> modeOf[order[i]],
                      location |-> location,
                      page_specific_url |-> "/promo",
                      variantsCount |-> variantsCount])]

\* the catalogs of one location: the location, the ids, their modes
CatalogsAt(location) ==
    UNION { { [location |-> location, ids |-> ids, modeOf |-> modeOf] :
                modeOf \in [ids -> RawModes] } :
            ids \in (SUBSET {x \in TestIds : location \in LocationsOf(x)}) \ {{}} }

Catalogs == CatalogsAt("global") \cup CatalogsAt("page_specific")

Unforced(c) == {x \in c.ids : c.modeOf[x] = "test"}

TrafficConfig(traffic) == [k \in StandardGroups \cup {"page_specific"} |-> traffic]

\* the state after assignGroup on catalog c with the draws that the run reads
BucketingRun(legacy, c, traffic, rng, chosenIndex, pick2) ==
    LET tests == Catalog(c.ids, c.modeOf, c.location, MaxVariants)
        res == AssignGroupOp(legacy, State, tests[1].location, tests, TrafficConfig(traffic),
                             rng, chosenIndex, pick2, now)
    IN  /\ assignments' = res.a
        /\ stored' = res.s
        /\ activeTests' = res.p
        /\ last' = [op |-> "assignGroup"]
        /\ UNCHANGED <<retry, instance, now, qvars, tvars>>

\* assignAllGroups over a catalog whose tests share one location: Math.random()
\* is read once per group with unforced tests, and twice more when the user is
\* in the experiment
AssignGroup ==
    \/ \E c \in Catalogs :
         /\ Unforced(c) = {}
         /\ BucketingRun(FALSE, c, 0, 0, 0, 0)
    \/ \E c \in Catalogs : \E traffic \in TrafficValues : \E rng \in RDraws :
         /\ Unforced(c) # {}
         /\ rng >= traffic
         /\ BucketingRun(FALSE, c, traffic, rng, 0, 0)
    \/ \E c \in Catalogs : \E traffic \in TrafficValues : \E rng \in RDraws :
         /\ Unforced(c) # {}
         /\ rng < traffic
         /\ \E chosenIndex \in 0..(Cardinality(Unforced(c)) - 1) :
            \E pick2 \in 0..(MaxVariants - 1) :
              BucketingRun(FALSE, c, traffic, rng, chosenIndex, pick2)

\* the same run by the older ABTestManager
AssignGroupLegacy ==
    \/ \E c \in Catalogs :
         /\ Unforced(c) = {}
         /\ BucketingRun(TRUE, c, 0, 0, 0, 0)
    \/ \E c \in Catalogs : \E traffic \in TrafficValues : \E rng \in RDraws :
         /\ Unforced(c) # {}
         /\ rng >= traffic
         /\ BucketingRun(TRUE, c, traffic, rng, 0, 0)
    \/ \E c \in Catalogs : \E traffic \in TrafficValues : \E rng \in RDraws :
         /\ Unforced(c) # {}
         /\ rng < traffic
         /\ \E chosenIndex \in 0..(Cardinality(Unforced(c)) - 1) :
            \E pick2 \in 0..(MaxVariants - 1) :
              BucketingRun(TRUE, c, traffic, rng, chosenIndex, pick2)

Cleanup ==
    /\ assignments' = CleanupOp(State, now).a
    /\ stored' = CleanupOp(State, now).s
    /\ activeTests' = CleanupOp(State, now).p
    /\ last' = [op |-> "cleanup"]
    /\ UNCHANGED <<retry, instance, now, qvars, tvars>>

AdvanceTime ==
    /\ \E d \in TimeSteps :
         /\ now + d <= MaxNow
         /\ now' = now + d
    /\ last' = [op |-> "time"]
    /\ UNCHANGED <<retry, instance, assignments, stored, activeTests, qvars, tvars>>

\* a later page load: new AssignmentManager() on the stored record
Reload ==
    /\ \E preview \in BOOLEAN :
         /\ assignments' = SetupCore(stored, preview, now).a
         /\ stored' = SetupCore(stored, preview, now).s
         /\ activeTests' = SetupCore(stored, preview, now).p
    /\ last' = [op |-> "reload"]
    /\ UNCHANGED <<retry, instance, now, qvars, tvars>>

\* assignment data handed to setAssignment by trackAssignment
ApiData ==
    { [type |-> IF v = "0" THEN "control" ELSE "test",
       mode |-> IF v = "0" THEN "pure-control" ELSE "probabilistic",
       pageGroup |-> g,
       tested_variant |-> "null",
       assigned_variant |-> v] : v \in {"0", "1", "2"}, g \in Groups }

SetAssignment ==
    /\ \E testId \in TestIds : \E data \in ApiData :
         /\ assignments' = SetAssignmentOp(State, testId, data, now).a
         /\ stored' = SetAssignmentOp(State, testId, data, now).s
         /\ activeTests' = SetAssignmentOp(State, testId, data, now).p
         /\ last' = [op |-> "setAssignment"]
    /\ UNCHANGED <<retry, instance, now, qvars, tvars>>

NextBucket == AssignGroup \/ Cleanup \/ AdvanceTime \/ Reload

SpecBucket == Init /\ [][NextBucket]_vars

NextAssign == AssignGroup \/ Cleanup \/ AdvanceTime \/ Reload \/ SetAssignment

SpecAssign == Init /\ [][NextAssign]_vars

\* a page that loads the older ABTestManager
NextBucketLegacy == AssignGroupLegacy \/ Cleanup \/ AdvanceTime \/ Reload

SpecBucketLegacy == Init /\ [][NextBucketLegacy]_vars

----------------------------------------------------------------------------
(* Actions of the delivery pipeline *)

\* queueEvent -> queueManager.add(evt): events are numbered in enqueue order
Enqueue ==
    /\ nextEvent <= MaxEvents
    /\ ~CheckLimit(requests, now).waits
    /\ requests' = CheckLimit(requests, now).requests
    /\ returns' = Append(returns, now)
    /\ queue' = Add(queue, nextEvent)
    /\ events' = Append(events, GenericEvent(now))
    /\ nextEvent' = nextEvent + 1
    /\ lastOp' = "add"
    /\ result' = Outcome("queued", GenericEvent(now))
    /\ UNCHANGED <<retry, instance, persisted, isProcessing, failedAttempts, batch, active, listeners,
                   timers, visible, delivered, toggles, failures, inflight,
                   processedEvents, suspended, avars>>

IdleIgnoringFlight == Len(queue) = 0

\* the guard of processQueue's early return
Idle == isProcessing \/ Len(queue) = 0

\* setTimeout(..., 60000) of the breaker: one more pending timer
ArmCooldownNever(n) == n

ArmCooldown(n) == n + 1

\* the guard of the circuit breaker
BreakerOpenAbove == failedAttempts > MaxConsecutiveFailures

BreakerOpen == failedAttempts >= MaxConsecutiveFailures

\* one tick of one running interval: processQueue up to its first await
ProcessQueue ==
    /\ active > 0
    /\ \/ /\ Idle
          /\ lastOp' = "tickIdle"
          /\ UNCHANGED <<isProcessing, batch, active, timers, inflight>>
       \/ /\ ~Idle
          /\ BreakerOpen
          /\ active' = active - 1
          /\ timers' = ArmCooldown(timers)
          /\ lastOp' = "trip"
          /\ UNCHANGED <<isProcessing, batch, inflight>>
       \/ /\ ~Idle
          /\ ~BreakerOpen
          /\ isProcessing' = TRUE
          /\ batch' = GetBatch(queue, BatchSize)
          /\ inflight' = inflight + 1
          /\ lastOp' = "send"
          /\ UNCHANGED <<active, timers>>
    /\ UNCHANGED <<retry, instance, queue, persisted, nextEvent, failedAttempts, listeners, visible,
                   delivered, toggles, failures, avars, tvars>>

\* await sendEvents(batch) resolves: the rest of the try block and finally
SendSucceeds ==
    /\ inflight > 0
    /\ queue' = RemoveBatch(queue, Len(batch))
    /\ failedAttempts' = 0
    /\ isProcessing' = FALSE
    /\ delivered' = delivered \o batch
    /\ inflight' = inflight - 1
    /\ lastOp' = "sendOk"
    /\ UNCHANGED <<retry, instance, persisted, nextEvent, batch, active, listeners, timers, visible,
                   toggles, failures, avars, tvars>>

\* the catch block leaves the queue as it is
QueueAfterFailureDrop(q, b) == RemoveBatch(q, Len(b))

QueueAfterFailure(q, b) == q

FailedAttemptsAfterFailureReset(n) == 0

FailedAttemptsAfterFailure(n) == n + 1

\* await sendEvents(batch) rejects: the catch block and finally
SendFails ==
    /\ inflight > 0
    /\ failures < MaxFailures
    /\ queue' = QueueAfterFailure(queue, batch)
    /\ failedAttempts' = FailedAttemptsAfterFailure(failedAttempts)
    /\ isProcessing' = FALSE
    /\ failures' = failures + 1
    /\ inflight' = inflight - 1
    /\ lastOp' = "sendFail"
    /\ UNCHANGED <<retry, instance, persisted, nextEvent, batch, active, listeners, timers,
                   visible, delivered, toggles, avars, tvars>>

\* the 60 s timeout of the breaker fires: the counter is reset and
\* setupEventProcessing starts an interval and adds a listener
CooldownFires ==
    /\ timers > 0
    /\ timers' = timers - 1
    /\ failedAttempts' = 0
    /\ active' = active + 1
    /\ listeners' = listeners + 1
    /\ lastOp' = "cooldown"
    /\ UNCHANGED <<retry, instance, queue, persisted, nextEvent, isProcessing, batch, visible,
                   delivered, toggles, failures, inflight, avars, tvars>>

\* visibilitychange: every listener runs; hidden: persistQueue and clearInterval
\* of the listener's own interval; visible: setupEventProcessing once per listener
VisibilityChange ==
    /\ toggles < MaxToggles
    /\ toggles' = toggles + 1
    /\ visible' = ~visible
    /\ \/ /\ visible
          /\ persisted' = PersistQueue(queue, persisted)
          /\ active' = 0
          /\ listeners' = listeners
          /\ lastOp' = "hide"
       \/ /\ ~visible
          /\ persisted' = persisted
          /\ active' = active + listeners
          /\ listeners' = listeners + listeners
          /\ lastOp' = "show"
    /\ UNCHANGED <<retry, instance, queue, nextEvent, isProcessing, failedAttempts, batch, timers,
                   delivered, failures, inflight, avars, tvars>>

NextQueue ==
    \/ Enqueue
    \/ ProcessQueue
    \/ SendSucceeds
    \/ SendFails
    \/ CooldownFires
    \/ VisibilityChange

SpecQueue == Init /\ [][NextQueue]_vars

\* the page is closed and the site is loaded again: the scripts run anew on
\* what localStorage holds; sends in flight are abandoned
PageLoad ==
    /\ queue' = LoadPersistedQueue(<<>>, persisted).queue
    /\ persisted' = LoadPersistedQueue(<<>>, persisted).persisted
    /\ isProcessing' = FALSE
    /\ failedAttempts' = 0
    /\ batch' = <<>>
    /\ active' = 1
    /\ listeners' = 1
    /\ timers' = 0
    /\ visible' = TRUE
    /\ inflight' = 0
    /\ assignments' = SetupCore(stored, FALSE, now).a
    /\ stored' = SetupCore(stored, FALSE, now).s
    /\ activeTests' = SetupCore(stored, FALSE, now).p
    /\ processedEvents' = EmptyMap
    /\ requests' = <<>>
    /\ suspended' = <<>>
    /\ lastOp' = "load"
    /\ last' = [op |-> "reload"]
    /\ instance' = Constructed
    /\ UNCHANGED <<retry, now, nextEvent, delivered, toggles, failures, events, returns,
                   result>>

NextPage == NextQueue \/ PageLoad

SpecPage == Init /\ [][NextPage]_vars

----------------------------------------------------------------------------
(* Actions of the tracking API *)

\* the tracking API starts at most MaxCalls calls of checkLimit
MaxCalls == 7
\* trackAssignment is called while at most MaxTrackCalls - 2 calls of checkLimit
\* have started
MaxTrackCalls == 5
\* impressions are submitted while fewer than MaxImpressionCalls calls of
\* checkLimit have started
MaxImpressionCalls == 5
\* the short steps of the clock of the tracking runs stop at MaxTrackClock
MaxTrackClock == 60
\* the clock of the deduplicator runs stops at MaxDedupClock seconds
MaxDedupClock == 1802
\* the clock of the rate limiter runs stops at MaxLimiterClock seconds
MaxLimiterClock == 120

\* seconds between two calls around the expiry of a dedup entry
DedupSteps == {900, 901}
\* seconds between two calls around the window of the limiter
LimiterSteps == {30, 60}

TrackState ==
    [a |-> assignments, s |-> stored, p |-> activeTests, queue |-> queue, nextEvent |-> nextEvent,
     events |-> events, processedEvents |-> processedEvents, requests |-> requests,
     suspended |-> suspended, returns |-> returns, result |-> result]

\* the reporter and the assignment manager after an operation of the API
Apply(T, op) ==
    /\ assignments' = T.a
    /\ stored' = T.s
    /\ activeTests' = T.p
    /\ queue' = T.queue
    /\ nextEvent' = T.nextEvent
    /\ events' = T.events
    /\ processedEvents' = T.processedEvents
    /\ requests' = T.requests
    /\ suspended' = T.suspended
    /\ returns' = T.returns
    /\ result' = T.result
    /\ lastOp' = op
    /\ last' = [op |-> op]
    /\ UNCHANGED <<retry, instance, now, persisted, isProcessing, failedAttempts, batch, active,
                   listeners, timers, visible, delivered, toggles, failures, inflight>>

CallsStarted == Len(returns) + Len(suspended)

\* the arguments of trackAssignment: complete ones, with and without a
\* variant, and ones with one or all of the required fields missing
TrackFields(id, ty, mo, g, v) ==
    [testId |-> id, assignmentType |-> ty, assignmentMode |-> mo, pageGroup |-> g,
     assigned_variant |-> v, tested_variant |-> Missing]

TrackInputs ==
    { TrackFields(id, "test", "probabilistic", "global", v) :
         id \in TestIds, v \in {"1", Missing} }
    \cup { TrackFields(id, Missing, "probabilistic", "global", "1") : id \in TestIds }
    \cup { TrackFields(id, "test", Missing, "global", "1") : id \in TestIds }
    \cup { TrackFields(id, "test", "probabilistic", Missing, "1") : id \in TestIds }
    \cup { TrackFields(Missing, "test", "probabilistic", "global", "1"),
           TrackFields(Missing, Missing, Missing, Missing, Missing) }

TrackAssignment ==
    /\ CallsStarted + 2 <= MaxTrackCalls
    /\ \E f \in TrackInputs :
          Apply(TrackAssignmentOp(TrackState, f, now), "trackAssignment")

\* the events handed to queueEvent by other callers
QueueInputs(t) ==
    { [GenericEvent(t) EXCEPT !.type = ty, !.data = da, !.user_id = us,
                              !.session_id = se] :
         ty \in BOOLEAN, da \in BOOLEAN, us \in BOOLEAN, se \in BOOLEAN }

QueueEvent ==
    /\ CallsStarted + 1 <= MaxCalls
    /\ \E evt \in QueueInputs(now) :
          Apply(QueueEventOp(TrackState, evt, "none", now), "queueEvent")

\* the timeout of a suspended checkLimit fires
Resume ==
    \E i \in 1..Len(suspended) :
       /\ suspended[i].wake <= now
       /\ Apply(ResumeOp(TrackState, i, now), "resume")

\* client timestamps of the payloads handed to the deduplicated path: the
\* current time, or that of an event submitted before
Stamps == {now} \cup {events[i].client_timestamp : i \in 1..Len(events)}

\* trackImpression(asg): the payload carries the time of the call
TrackImpression ==
    /\ CallsStarted + 1 <= MaxImpressionCalls
    /\ \E testId \in TestIds :
          Apply(TrackImpressionOp(TrackState, testId, now), "trackImpression")

\* the values of data.test_id of the events handed to the deduplicator
DedupTestIds == {Undefined, "t1"}

\* the deduplicated path applied to an event of any data.test_id and any
\* client timestamp: isDuplicate, queueEvent, markProcessed
DeduplicatedSubmit ==
    /\ CallsStarted + 1 <= MaxImpressionCalls
    /\ \E x \in DedupTestIds : \E ts \in Stamps :
          Apply(DedupPath(TrackState,
                          [Payload("test_impression", "t1", ts) EXCEPT !.test_id = x],
                          now),
                "submit")

\* the hourly task of setupCleanupTasks
CleanupTasks ==
    /\ processedEvents' = DedupCleanupOp(processedEvents, now)
    /\ assignments' = CleanupOp(State, now).a
    /\ stored' = CleanupOp(State, now).s
    /\ activeTests' = CleanupOp(State, now).p
    /\ lastOp' = "cleanupTasks"
    /\ last' = [op |-> "cleanup"]
    /\ UNCHANGED <<retry, instance, now, queue, persisted, nextEvent, isProcessing, failedAttempts,
                   batch, active, listeners, timers, visible, delivered, toggles,
                   failures, inflight, events, requests, suspended, returns, result>>

\* time passes
Tick(steps, cap) ==
    /\ \E d \in steps :
         /\ now + d <= cap
         /\ now' = now + d
    /\ lastOp' = "time"
    /\ last' = [op |-> "time"]
    /\ UNCHANGED <<retry, instance, assignments, stored, activeTests, queue, persisted, nextEvent, isProcessing,
                   failedAttempts, batch, active, listeners, timers, visible,
                   delivered, toggles, failures, inflight, tvars>>

AdvanceDays == Tick(TimeSteps, MaxNow)

AdvanceDedupClock == Tick(DedupSteps, MaxDedupClock)

AdvanceLimiterClock == Tick(LimiterSteps, MaxLimiterClock)

\* half a window of the limiter passes, up to MaxTrackClock seconds
AdvanceTrackClock == Tick({30}, MaxTrackClock)

NextTrack ==
    \/ TrackAssignment \/ TrackImpression \/ Resume \/ CleanupTasks
    \/ AdvanceTrackClock \/ AdvanceDays

SpecTrack == Init /\ [][NextTrack]_vars

NextDedup == DeduplicatedSubmit \/ Enqueue \/ Resume \/ AdvanceDedupClock \/ CleanupTasks

SpecDedup == Init /\ [][NextDedup]_vars

\* trackTestAssignments of the older ABTestManager: trackAssignment for the
\* valid assignments, one after the other (the loop waits while a call is
\* suspended in the rate limiter)
RECURSIVE TrackEach(_, _, _, _)
TrackEach(T, order, i, t) ==
    IF i > Len(order) \/ T.result.out = "suspended" THEN T
    ELSE LET a == T.a[order[i]]
             f == [testId |-> a.testId, assignmentType |-> a.type,
                   assignmentMode |-> a.mode, pageGroup |-> a.pageGroup,
                   assigned_variant |-> a.assigned_variant,
                   tested_variant |-> a.tested_variant]
         IN  TrackEach(TrackAssignmentOp([T EXCEPT !.result = TrackOutcome("loop", f, t)],
                                         f, t),
                       order, i + 1, t)

\* initialize of the older ABTestManager with a reporter present: cleanup,
\* the bucketing of one catalog, trackTestAssignments
InitializeLegacyRun(c, traffic, rng, chosenIndex, pick2) ==
    LET tests == Catalog(c.ids, c.modeOf, c.location, MaxVariants)
        st0 == CleanupOp(State, now)
        st1 == AssignGroupOp(TRUE, st0, tests[1].location, tests, TrafficConfig(traffic),
                             rng, chosenIndex, pick2, now)
        IsTracked(x) == x \in DOMAIN st1.a /\ IsValid(st1.a[x], now)
        T0 == [TrackState EXCEPT !.a = st1.a, !.s = st1.s, !.p = st1.p,
                                 !.result = Outcome("none", GenericEvent(now))]
    IN  Apply(TrackEach(T0, SelectSeq(TestOrder, IsTracked), 1, now), "initialize")

InitializeLegacy ==
    \/ \E c \in Catalogs :
         /\ Unforced(c) = {}
         /\ InitializeLegacyRun(c, 0, 0, 0, 0)
    \/ \E c \in Catalogs : \E traffic \in TrafficValues : \E rng \in RDraws :
         /\ Unforced(c) # {}
         /\ rng >= traffic
         /\ InitializeLegacyRun(c, traffic, rng, 0, 0)
    \/ \E c \in Catalogs : \E traffic \in TrafficValues : \E rng \in RDraws :
         /\ Unforced(c) # {}
         /\ rng < traffic
         /\ \E chosenIndex \in 0..(Cardinality(Unforced(c)) - 1) :
            \E pick2 \in 0..(MaxVariants - 1) :
              InitializeLegacyRun(c, traffic, rng, chosenIndex, pick2)

NextInitLegacy == InitializeLegacy \/ AdvanceDays \/ Reload

SpecInitLegacy == Init /\ [][NextInitLegacy]_vars

NextLimiter == QueueEvent \/ Resume \/ AdvanceLimiterClock

SpecLimiter == Init /\ [][NextLimiter]_vars

----------------------------------------------------------------------------
(* Actions of a send *)

\* processQueue calls sendEvents while no call of it is pending
SendEvents ==
    /\ retry.send # "pending"
    /\ \E kind \in BatchKinds : \E n \in RetryAttemptsValues : \E d \in RetryDelayValues :
          retry' = SendEventsOp(FALSE, kind, RetryConfig(n, d))
    /\ UNCHANGED <<instance, avars, qvars, tvars>>

\* the same call in the second copy of the reporter script
SendEventsSecond ==
    /\ retry.send # "pending"
    /\ \E kind \in BatchKinds : \E n \in RetryAttemptsValues : \E d \in RetryDelayValues :
          retry' = SendEventsOp(TRUE, kind, RetryConfig(n, d))
    /\ UNCHANGED <<instance, avars, qvars, tvars>>

AttemptSucceeds ==
    /\ retry.phase = "calling"
    /\ retry' = AttemptSucceedsOp(retry)
    /\ UNCHANGED <<instance, avars, qvars, tvars>>

AttemptFails ==
    /\ retry.phase = "calling"
    /\ \E outcome \in FailedOutcomes : \E jitter \in JitterValues :
          retry' = AttemptFailsOp(retry, outcome, jitter)
    /\ UNCHANGED <<instance, avars, qvars, tvars>>

BackoffEnds ==
    /\ retry.phase = "waiting"
    /\ retry' = BackoffEndsOp(retry)
    /\ UNCHANGED <<instance, avars, qvars, tvars>>

NextSend == SendEvents \/ AttemptSucceeds \/ AttemptFails \/ BackoffEnds

SpecSend == Init /\ [][NextSend]_vars

NextSendSecond == SendEventsSecond \/ AttemptSucceeds \/ AttemptFails \/ BackoffEnds

SpecSendSecond == Init /\ [][NextSendSecond]_vars

----------------------------------------------------------------------------
(* Actions of a page whose scripts construct the managers again *)

\* a page on which no script has built a manager or a reporter yet
BlankManager == [a |-> EmptyMap, s |-> stored, p |-> activeTests]

BlankReporter ==
    [queue |-> <<>>, persisted |-> persisted, processedEvents |-> EmptyMap,
     requests |-> <<>>, suspended |-> <<>>, isProcessing |-> FALSE,
     failedAttempts |-> 0, active |-> 0, listeners |-> 0]

\* the managers after a construction
Constructs(out, op, again) ==
    /\ instance' = out.instance
    /\ assignments' = out.st.a
    /\ stored' = out.st.s
    /\ activeTests' = out.st.p
    /\ queue' = out.R.queue
    /\ persisted' = out.R.persisted
    /\ processedEvents' = out.R.processedEvents
    /\ requests' = out.R.requests
    /\ suspended' = out.R.suspended
    /\ isProcessing' = out.R.isProcessing
    /\ failedAttempts' = out.R.failedAttempts
    /\ active' = out.R.active
    /\ listeners' = out.R.listeners
    /\ lastOp' = op
    /\ last' = [op |-> op, again |-> again]
    /\ UNCHANGED <<retry, now, nextEvent, delivered, toggles, failures, events, returns,
                   result>>

\* the site is loaded again and its scripts run: new AssignmentManager() of
\* the manager's script, PostgresReporter.initialize(config) of the
\* reporter's script; where TrackingCore is not defined yet when they run,
\* setupCore and the dependency check throw and no instance is recorded
PageLoadScripts ==
    \E core \in BOOLEAN :
       LET am == AssignmentManagerNew(NotConstructed, BlankManager, now)
           pr == PostgresReporterNew(am.instance, am.st, BlankReporter, TRUE, now)
       IN  /\ Constructs(IF core THEN pr
                         ELSE [instance |-> NotConstructed, st |-> BlankManager,
                               R |-> BlankReporter],
                         "load", FALSE)
           /\ batch' = <<>>
           /\ timers' = 0
           /\ visible' = TRUE
           /\ inflight' = 0

\* new AssignmentManager() of a later script (the ABTestManager's constructor)
NewAssignmentManager ==
    LET am == AssignmentManagerNew(instance, State, now)
    IN  /\ Constructs([instance |-> am.instance, st |-> am.st, R |-> ReporterState],
                      "newAssignmentManager", instance.manager)
        /\ UNCHANGED <<batch, timers, visible, inflight>>

\* new PostgresReporter(config) of a later script, with or without the
\* endpoint and the key in config
NewPostgresReporter ==
    \E configOk \in BOOLEAN :
       /\ Constructs(PostgresReporterNew(instance, State, ReporterState, configOk, now),
                     "newPostgresReporter", instance.reporter)
       /\ UNCHANGED <<batch, timers, visible, inflight>>

\* the tracking API is called on the instances, once both exist
TrackAssignmentShared ==
    /\ instance = Constructed
    /\ TrackAssignment

TrackImpressionShared ==
    /\ instance = Constructed
    /\ TrackImpression

NextSingleton ==
    \/ TrackAssignmentShared
    \/ TrackImpressionShared
    \/ PageLoadScripts
    \/ NewAssignmentManager
    \/ NewPostgresReporter

SpecSingleton == Init /\ [][NextSingleton]_vars

----------------------------------------------------------------------------
(* Actions with a localStorage whose calls may throw *)

\* data without a mode: the assignment built from it is not valid
IncompleteData ==
    [type |-> "test", mode |-> Undefined, pageGroup |-> "global",
     tested_variant |-> "null", assigned_variant |-> "1"]

CompleteData == [IncompleteData EXCEPT !.mode = "probabilistic"]

\* the calls of setAssignment made here: testId and data
StorageCalls == {<<"t1", CompleteData>>, <<"t2", IncompleteData>>}

\* the localStorage calls of one page load that throw: at most one kind
LoadFailures ==
    {f \in QueueReadFailures \X ReadFailures \X WriteFailures :
        Cardinality({i \in 1..3 : f[i] # "none"}) <= 1}

SetAssignmentFailing ==
    /\ \E call \in StorageCalls : \E fail \in WriteFailures :
          LET r == SetAssignmentTry(State, call[1], call[2], now, fail)
          IN  /\ assignments' = r.a
              /\ stored' = r.s
              /\ activeTests' = r.p
              /\ last' = [op |-> "setAssignment", error |-> r.error]
    /\ UNCHANGED <<retry, instance, now, qvars, tvars>>

CleanupFailing ==
    /\ \E fail \in WriteFailures :
          LET r == CleanupTry(State, now, fail)
          IN  /\ assignments' = r.a
              /\ stored' = r.s
              /\ activeTests' = r.p
              /\ last' = [op |-> "cleanup", error |-> r.error]
    /\ UNCHANGED <<retry, instance, now, qvars, tvars>>

\* visibilitychange with one listener: persistQueue, whose setItem may throw,
\* and clearInterval; or setupEventProcessing
VisibilityChangeFailing ==
    /\ toggles < MaxToggles
    /\ toggles' = toggles + 1
    /\ visible' = ~visible
    /\ \/ /\ visible
          /\ \E fail \in BOOLEAN :
                /\ fail => Len(queue) > 0
                /\ persisted' = PersistQueueTry(queue, persisted, fail).persisted
                /\ last' = [op |-> "persistQueue",
                            error |-> PersistQueueTry(queue, persisted, fail).error]
          /\ active' = 0
          /\ listeners' = listeners
          /\ lastOp' = "hide"
       \/ /\ ~visible
          /\ persisted' = persisted
          /\ active' = active + listeners
          /\ listeners' = listeners + listeners
          /\ lastOp' = "show"
          /\ last' = [op |-> "show", error |-> Undefined]
    /\ UNCHANGED <<retry, instance, queue, nextEvent, isProcessing, failedAttempts, batch, timers,
                   delivered, failures, inflight, assignments, stored, activeTests, now,
                   tvars>>

\* a page load whose reads and writes of localStorage may throw
PageLoadFailing ==
    /\ \E f \in LoadFailures :
          LET q == LoadPersistedQueueTry(<<>>, persisted, f[1])
              r == SetupCoreTry(State, FALSE, now, f[2], f[3])
          IN  /\ queue' = q.queue
              /\ persisted' = q.persisted
              /\ assignments' = r.a
              /\ stored' = r.s
              /\ activeTests' = r.p
              /\ last' = [op |-> "load",
                          error |-> IF q.error # Undefined THEN q.error ELSE r.error]
    /\ isProcessing' = FALSE
    /\ failedAttempts' = 0
    /\ batch' = <<>>
    /\ active' = 1
    /\ listeners' = 1
    /\ timers' = 0
    /\ visible' = TRUE
    /\ inflight' = 0
    /\ processedEvents' = EmptyMap
    /\ requests' = <<>>
    /\ suspended' = <<>>
    /\ lastOp' = "load"
    /\ instance' = Constructed
    /\ UNCHANGED <<retry, now, nextEvent, delivered, toggles, failures, events, returns,
                   result>>

NextStorage ==
    \/ SetAssignmentFailing
    \/ CleanupFailing
    \/ Enqueue
    \/ VisibilityChangeFailing
    \/ PageLoadFailing

SpecStorage == Init /\ [][NextStorage]_vars

\* the interval and the timers of the browser fire, and a send completes (every
\* attempt of withRetry is bounded by its timeout)
LiveQueue ==
    /\ SpecQueue
    /\ WF_vars(ProcessQueue)
    /\ WF_vars(CooldownFires)
    /\ WF_vars(SendSucceeds \/ SendFails)

----------------------------------------------------------------------------
(* Claims about the Assignment Engine *)

NonZeroIn(g) ==
    {x \in DOMAIN assignments :
        assignments[x].pageGroup = g /\ assignments[x].assigned_variant # "0"}

MembersOf(g) == {x \in DOMAIN assignments : assignments[x].pageGroup = g}

\* C1: after any sequence of bucketing runs every page-group holds at most one
\* stored assignment whose assigned_variant is not "0" (mutual exclusion).
C1_MutualExclusion ==
    \A g \in Groups : Cardinality(NonZeroIn(g)) <= 1

CoreFields(a) == <<a.assigned_variant, a.type, a.mode, a.pageGroup, a.timestamp>>

\* C2: a bucketing run leaves every assignment that is valid when the run starts
\* unchanged in assigned_variant, type, mode, pageGroup and timestamp, whatever
\* the catalog and the draws of the run are.
C2_RerunKeepsAssignment ==
    [][ last'.op = "assignGroup" =>
          \A x \in DOMAIN assignments :
             IsValid(assignments[x], now) =>
                /\ x \in DOMAIN assignments'
                /\ CoreFields(assignments'[x]) = CoreFields(assignments[x]) ]_vars

\* C3: in every state of the map (each one follows a mutation and its persist),
\* for every page-group G with k assignments whose assigned_variant is not "0":
\* k = 0: every tested_variant of G is "0"; k = 1: the non-zero assignment has
\* tested_variant = assigned_variant and every other one "excluded"; k >= 2:
\* every tested_variant of G is "excluded".
C3_ExposureAttribution ==
    \A g \in Groups :
       LET k == Cardinality(NonZeroIn(g))
       IN  \A x \in MembersOf(g) :
              /\ k = 0 => assignments[x].tested_variant = "0"
              /\ (k = 1 /\ x \in NonZeroIn(g)) =>
                    assignments[x].tested_variant = assignments[x].assigned_variant
              /\ (k = 1 /\ x \notin NonZeroIn(g)) =>
                    assignments[x].tested_variant = "excluded"
              /\ k >= 2 => assignments[x].tested_variant = "excluded"

\* setAssignment has just run and left a group with exactly one non-zero
\* assignment beside a control one
C3_Witness ==
    /\ last.op = "setAssignment"
    /\ \E g \in Groups :
          /\ Cardinality(NonZeroIn(g)) = 1
          /\ MembersOf(g) \ NonZeroIn(g) # {}
          /\ \A x \in MembersOf(g) \ NonZeroIn(g) :
                assignments[x].tested_variant = "excluded"

\* C10: getAssignment and getAllAssignments never return an assignment with
\* now - timestamp >= 30 days, before or after cleanup.
C10_NoExpiredReturned ==
    /\ \A a \in GetAllAssignments(assignments, now) : now - a.timestamp < EXPIRY
    /\ \A x \in TestIds :
          \A a \in GetAssignment(assignments, x, now) : now - a.timestamp < EXPIRY

\* the map still holds an expired assignment, which getAssignment does not
\* return, beside a valid one, which it returns
C10_Witness ==
    /\ \E x \in DOMAIN assignments :
          /\ now - assignments[x].timestamp >= EXPIRY
          /\ GetAssignment(assignments, x, now) = {}
          /\ assignments[x] \notin GetAllAssignments(assignments, now)
    /\ \E y \in DOMAIN assignments : GetAssignment(assignments, y, now) = {assignments[y]}

\* C11: a later page load that reads the stored record keeps the timestamp
\* (createdAt) of every assignment it loads, and does not load an assignment
\* whose stored timestamp is 30 days old or more.
C11_ReloadPreservesCreatedAt ==
    [][ last'.op = "reload" =>
          \A x \in DOMAIN stored :
             /\ x \in DOMAIN assignments' =>
                   assignments'[x].timestamp = stored[x].timestamp
             /\ now - stored[x].timestamp >= EXPIRY => x \notin DOMAIN assignments' ]_vars

----------------------------------------------------------------------------
(* Claims about the delivery pipeline *)

InSeq(sq, e) == \E i \in 1..Len(sq) : sq[i] = e

IsPrefix(p, sq) == Len(p) <= Len(sq) /\ SubSeq(sq, 1, Len(p)) = p

\* C4: if the page stays visible and sends eventually always succeed (the model
\* lets at most MaxFailures sends fail), every queued event is eventually sent
\* and removed, also after the breaker has tripped.
C4_EventuallyDelivered ==
    (<>[]visible) =>
        \A e \in 1..MaxEvents :
            [](InSeq(queue, e) => <>(InSeq(delivered, e) /\ ~InSeq(queue, e)))

\* the page was never hidden, a cooldown has fired (so the breaker had tripped),
\* and every event has been delivered
C4_Witness ==
    /\ visible /\ toggles = 0
    /\ listeners >= 2
    /\ failures >= MaxConsecutiveFailures
    /\ queue = <<>>
    /\ Len(delivered) = MaxEvents

\* C5: an event leaves the queue only in the step that ends a successful send
\* of a batch containing it.
C5_RemovedOnlyBySuccess ==
    [][ \A e \in 1..MaxEvents :
          (InSeq(queue, e) /\ ~InSeq(queue', e)) =>
             /\ lastOp' = "sendOk"
             /\ isProcessing
             /\ InSeq(batch, e)
             /\ InSeq(delivered', e) ]_vars

\* a send has just succeeded while the page is hidden, after the queue was
\* persisted on hide, the breaker had tripped and its cooldown had fired
C5_Witness ==
    /\ lastOp = "sendOk"
    /\ toggles = 1 /\ ~visible
    /\ listeners >= 2
    /\ persisted # <<>>
    /\ failures >= MaxConsecutiveFailures
    /\ delivered # <<>>

\* C6: the step that ends a successful send removes exactly the batch taken
\* before the send from the head of the queue, keeps what was enqueued
\* meanwhile, and resets failedAttempts to 0.
C6_SuccessRemovesBatch ==
    [][ lastOp' = "sendOk" =>
          /\ queue = batch \o queue'
          /\ batch # <<>>
          /\ delivered' = delivered \o batch
          /\ failedAttempts' = 0 ]_vars

\* a send of a batch that held the whole queue has succeeded and the events
\* enqueued while it was in flight are still queued
C6_Witness ==
    /\ lastOp = "sendOk"
    /\ Len(batch) < BatchSize
    /\ Len(queue) >= 2
    /\ failedAttempts = 0

\* C7: the step that ends a failed send removes nothing and adds exactly 1 to
\* failedAttempts, and the batch taken next starts with the failed batch.
C7_FailureKeepsQueue ==
    [][ /\ lastOp' = "sendFail" =>
             /\ queue' = queue
             /\ failedAttempts' = failedAttempts + 1
             /\ IsPrefix(batch, queue')
        /\ (lastOp' = "send" /\ failedAttempts > 0) => IsPrefix(batch, batch') ]_vars

\* a send has failed for the second time in a row with more events queued than
\* the batch held
C7_Witness ==
    /\ lastOp = "sendFail"
    /\ failedAttempts = 2
    /\ Len(queue) > Len(batch)

\* C8: the events of successfully sent batches are delivered in the order of
\* their enqueueing, none overtaking an earlier one (events are numbered 1, 2, ...
\* as they are enqueued).
C8_FifoDelivery ==
    \A i \in 1..Len(delivered) : delivered[i] = i

\* all events were delivered, in more than one batch, after a failed send
C8_Witness ==
    /\ Len(delivered) = MaxEvents
    /\ MaxEvents > BatchSize
    /\ failures >= 1
    /\ queue = <<>>

\* C9: with failedAttempts at the ceiling, a tick that finds a non-empty queue
\* cancels its interval and arms the cooldown without sending; no send is
\* started while a cooldown timer armed by such a tick is pending; when a timer
\* fires, failedAttempts is 0 and a sender is scheduled again.
C9_CircuitBreaker ==
    [][ /\ (lastOp' \in {"tickIdle", "trip", "send"}
              /\ Len(queue) > 0 /\ failedAttempts >= MaxConsecutiveFailures) =>
             /\ lastOp' = "trip"
             /\ active' = active - 1
             /\ timers' = timers + 1
             /\ ~isProcessing'
        /\ lastOp' = "send" => timers = 0
        /\ lastOp' = "cooldown" => (failedAttempts' = 0 /\ active' >= 1) ]_vars

\* C19: at most one sendEvents call of the batch sender is unsettled at any
\* time, whatever the number of running intervals; a tick that fires while a
\* send is in flight or while the queue is empty starts no send and changes no
\* state of the reporter.
C19_SingleFlight ==
    [][ /\ inflight' <= 1
        /\ (lastOp' \in {"tickIdle", "trip", "send"} /\ (inflight > 0 \/ Len(queue) = 0)) =>
             /\ lastOp' = "tickIdle"
             /\ UNCHANGED <<queue, persisted, nextEvent, isProcessing, failedAttempts,
                            batch, active, listeners, timers, visible, delivered,
                            inflight, events, processedEvents, requests, suspended>> ]_vars

\* a tick has just fired and done nothing while a send is in flight, events are
\* queued and two intervals run
C19_Witness ==
    /\ lastOp = "tickIdle"
    /\ inflight = 1
    /\ Len(queue) > 0
    /\ active >= 2

\* C20: while the page is hidden no batch send is started, also after a
\* cooldown timer of the circuit breaker has fired while the page is hidden.
C20_HiddenStopsSender ==
    [][ lastOp' = "send" => visible ]_vars

----------------------------------------------------------------------------
(* Claims about the tracking API *)

\* the assignments that a step has created or replaced
Transitions ==
    {x \in DOMAIN assignments' :
        x \notin DOMAIN assignments \/ assignments'[x] # assignments[x]}

\* the events appended by a step
NewEvents == SubSeq(events', Len(events) + 1, Len(events'))

\* C12: when initialize has completed with a reporter present, an event about
\* every assignment that the run created has been enqueued by the run.
C12_TransitionsEnqueued ==
    [][ lastOp' = "initialize" =>
          \A x \in Transitions :
             \E i \in 1..Len(NewEvents) : NewEvents[i].event_test_id = x ]_vars

\* the names of the events of a sequence
RECURSIVE NamesOf(_)
NamesOf(evts) ==
    IF evts = <<>> THEN <<>> ELSE <<Head(evts).event_name>> \o NamesOf(Tail(evts))

\* the events that a caller suspended in the rate limiter will append when
\* it resumes
Owed(e) ==
    IF e.cont = "impression" THEN <<"test_assignment", "test_impression">>
    ELSE <<e.evt.event_name>>

\* the suspended callers that a step has added
NewSuspended == SubSeq(suspended', Len(suspended) + 1, Len(suspended'))

RECURSIVE OwedAll(_)
OwedAll(es) == IF es = <<>> THEN <<>> ELSE Owed(Head(es)) \o OwedAll(Tail(es))

\* the events of a step are about one test and are appended in the order of
\* the queue
AboutTest(x) ==
    /\ \A i \in 1..Len(NewEvents) : NewEvents[i].event_test_id = x
    /\ \A i \in 1..Len(NewSuspended) : NewSuspended[i].evt.event_test_id = x
    /\ Len(queue') = Len(queue) + Len(NewEvents)

NoValidAssignment(x) == ~(x \in DOMAIN assignments /\ IsValid(assignments[x], now))

\* the step leaves a valid assignment of test x
StoredValid(x) == x \in DOMAIN assignments' /\ IsValid(assignments'[x], now')

HasRequiredFields(f) ==
    /\ f.testId # Missing
    /\ f.assignmentType # Missing
    /\ f.assignmentMode # Missing
    /\ f.pageGroup # Missing

\* a call of trackAssignment with the required fields for a test without a
\* valid assignment
TrackCreates ==
    /\ lastOp' = "trackAssignment"
    /\ HasRequiredFields(result'.input)
    /\ NoValidAssignment(result'.input.testId)

\* the suspended callers that a resumption has added
ResumedTail == SubSeq(suspended', Len(suspended), Len(suspended'))

\* C13: trackAssignment for a testId without a valid assignment
\* stores an assignment for it and appends exactly one test_assignment event
\* followed by exactly one test_impression event of that testId; a call that
\* the rate limiter suspends appends what it still owes when it resumes.
C13_AssignmentThenImpression ==
    [][ /\ TrackCreates =>
            /\ StoredValid(result'.input.testId)
            /\ AboutTest(result'.input.testId)
            /\ NamesOf(NewEvents) \o OwedAll(NewSuspended)
                 = <<"test_assignment", "test_impression">>
        /\ lastOp' = "resume" =>
            \E i \in 1..Len(suspended) :
               /\ RemoveAt(suspended, i) = SubSeq(suspended', 1, Len(suspended) - 1)
               /\ NamesOf(NewEvents) \o OwedAll(ResumedTail) = Owed(suspended[i]) ]_vars

\* the step leaves the state of the tracking API as it was
TrackingUnchanged ==
    UNCHANGED <<assignments, stored, processedEvents, queue, events, suspended,
                requests, returns>>

\* C14: trackAssignment with the required fields for a testId that has a valid
\* assignment changes nothing: the assignment map, durable storage, the dedup
\* map, the pending queue and the rate limiter are as before, so a second
\* call with the same fields adds no event.
C14_ValidAssignmentNoOp ==
    [][ ( /\ lastOp' = "trackAssignment"
          /\ HasRequiredFields(result'.input)
          /\ ~NoValidAssignment(result'.input.testId) )
        => TrackingUnchanged ]_vars

\* trackAssignment has returned early for a test whose events are queued
C14_Witness ==
    /\ lastOp = "trackAssignment"
    /\ result.out = "noop"
    /\ \E i \in 1..Len(events) :
          /\ events[i].event_name = "test_assignment"
          /\ events[i].event_test_id = result.input.testId

\* C15: trackAssignment with testId, assignmentType, assignmentMode or
\* pageGroup missing fails with a validation error and leaves the assignment
\* map, durable storage, the dedup map and the pending queue unchanged.
C15_MissingFieldRejected ==
    [][ ( /\ lastOp' = "trackAssignment"
          /\ ~HasRequiredFields(result'.input) )
        => /\ result'.out = "ValidationError"
           /\ TrackingUnchanged ]_vars

\* trackAssignment has failed for a missing pageGroup after events were queued
C15_Witness ==
    /\ lastOp = "trackAssignment"
    /\ result.out = "ValidationError"
    /\ result.input.testId # Missing
    /\ result.input.pageGroup = Missing
    /\ events # <<>>

\* the requests that the limiter counts at the current time
CountedRequests == {i \in 1..Len(requests) : now - requests[i] < TimeWindow}

\* queueEvent(evt) went through: with room in the limiter the event is at the
\* end of the queue, without room the caller waits with it
WentThrough(evt) ==
    IF Cardinality(CountedRequests) < MaxRequests
    THEN /\ events' = Append(events, evt)
         /\ Len(queue') = Len(queue) + 1
         /\ suspended' = suspended
    ELSE /\ events' = events
         /\ queue' = queue
         /\ Len(suspended') = Len(suspended) + 1
         /\ suspended'[Len(suspended')].evt = evt
         /\ suspended'[Len(suspended')].wake > now

\* a caller of queueEvent that waited appends its event when it resumes
WaitedThenAppended ==
    lastOp' = "resume" =>
       \E i \in 1..Len(suspended) :
          /\ suspended[i].wake <= now
          /\ suspended' = RemoveAt(suspended, i)
          /\ events' = Append(events, suspended[i].evt)
          /\ Len(queue') = Len(queue) + 1

\* C16 (as stated): queueEvent fails with a validation error if and only if
\* the event lacks type or data or lacks both the user id and the session id;
\* otherwise it waits for the rate limiter and then appends the event; a
\* rejected event is never appended.
C16_RejectedIffBothIdsMissing ==
    [][ /\ lastOp' = "queueEvent" =>
            /\ result'.out = "ValidationError"
                 <=> ( \/ ~result'.input.type
                       \/ ~result'.input.data
                       \/ (~result'.input.user_id /\ ~result'.input.session_id) )
            /\ result'.out = "ValidationError" => TrackingUnchanged
            /\ result'.out # "ValidationError" => WentThrough(result'.input)
        /\ WaitedThenAppended ]_vars

\* C16 (amended): queueEvent fails with a validation error if and only if the
\* event lacks type or data or lacks the user id or the session id; otherwise
\* it waits for the rate limiter and then appends the event; a rejected event
\* is never appended.
C16_RejectedIffAnIdMissing ==
    [][ /\ lastOp' = "queueEvent" =>
            /\ result'.out = "ValidationError"
                 <=> ( \/ ~result'.input.type
                       \/ ~result'.input.data
                       \/ ~result'.input.user_id
                       \/ ~result'.input.session_id )
            /\ result'.out = "ValidationError" => TrackingUnchanged
            /\ result'.out # "ValidationError" => WentThrough(result'.input)
        /\ WaitedThenAppended ]_vars

\* queueEvent has rejected an event that has a user id and no session id,
\* after an event had to wait for the limiter and was appended
C16_Witness ==
    /\ lastOp = "queueEvent"
    /\ result.out = "ValidationError"
    /\ result.input.type /\ result.input.data
    /\ result.input.user_id /\ ~result.input.session_id
    /\ Len(events) > MaxRequests

\* the key of the claim: session id, test id, event name, client timestamp
SameKey(e1, e2) ==
    /\ e1.session_id = e2.session_id
    /\ e1.test_id = e2.test_id
    /\ e1.event_name = e2.event_name
    /\ e1.client_timestamp = e2.client_timestamp

\* the events with the key of evt that went through the deduplicated path:
\* each was marked when it was appended, at the time checkLimit returned
MarkedLike(evt) ==
    {i \in 1..Len(events) :
        events[i].event_name = "test_impression" /\ SameKey(events[i], evt)}

\* C17: an event handed to the deduplicated path is reported as duplicate,
\* and not enqueued, exactly when an event of the same key was marked within
\* the expiry window (not more than EXPIRY_TIME ago); once every mark of its
\* key is older than the expiry window the event is accepted and enqueued
\* again.
C17_DuplicateWithinWindow ==
    [][ /\ Len(events) = Len(returns)
        /\ lastOp' = "submit" =>
             IF \E i \in MarkedLike(result'.input) : now - returns[i] <= EXPIRY_TIME
             THEN /\ result'.out = "duplicate"
                  /\ events' = events /\ queue' = queue /\ suspended' = suspended
             ELSE /\ result'.out # "duplicate"
                  /\ WentThrough(result'.input) ]_vars

\* an event was accepted again after the mark of its key had expired
C17_Witness ==
    /\ lastOp = "submit"
    /\ result.out = "queued"
    /\ events[Len(events)] = result.input
    /\ \E i \in 1..(Len(events) - 1) :
          /\ events[i] = result.input
          /\ now - returns[i] > EXPIRY_TIME

\* the calls of checkLimit that returned in the interval of TimeWindow that
\* ends with the i-th return
ReturnsInWindow(i) ==
    {j \in 1..Len(returns) :
        returns[i] - TimeWindow < returns[j] /\ returns[j] <= returns[i]}

\* C18: in any interval of TimeWindow at most MaxRequests calls of checkLimit
\* return, also when several callers of queueEvent wait in checkLimit at the
\* same time.
C18_AtMostMaxRequestsPerWindow ==
    \A i \in 1..Len(returns) : Cardinality(ReturnsInWindow(i)) <= MaxRequests

----------------------------------------------------------------------------
(* Claims about page visibility and page loads *)

C22_NoEventLostAtClose ==
    [][ (lastOp' = "load" /\ ~visible /\ ~BreakerOpen)
        => \A i \in 1..Len(queue) : InSeq(queue', queue[i]) ]_vars

\* C23: at most one interval of the reporter runs at any time, and becoming
\* visible leaves exactly one.
C23_OneSender ==
    /\ active <= 1
    /\ lastOp = "show" => active = 1

----------------------------------------------------------------------------
(* Claims about the outcome of one bucketing run *)

\* the group of catalog c
GroupOf(c) == Catalog(c.ids, c.modeOf, c.location, MaxVariants)[1].location

\* the map after assignGroup on catalog c from the current state
RunOutcome(c, traffic, rng, chosenIndex, pick2) ==
    AssignGroupOp(FALSE, State, GroupOf(c),
                  Catalog(c.ids, c.modeOf, c.location, MaxVariants),
                  TrafficConfig(traffic), rng, chosenIndex, pick2, now).a

NoPrior(x) == GetAssignment(assignments, x, now) = {}

\* the group of c holds nothing but the tests of c, none with a valid assignment
FreshGroup(c) ==
    /\ \A x \in c.ids : NoPrior(x)
    /\ \A y \in (DOMAIN assignments) \ c.ids : GroupKey(assignments[y]) # GroupOf(c)

NonZeroVariants == {VariantName(i) : i \in 0..(MaxVariants - 1)}

\* C24: with traffic 100, a run on a group of n >= 1 unforced tests without
\* prior assignments gives exactly one test a variant of "1".."variantsCount"
\* with type test and mode probabilistic and tested_variant = assigned_variant,
\* and every other test "0" with mode excluded and tested_variant "excluded";
\* the test of a one-test group never gets "0".
C24_FullTraffic ==
    \A c \in Catalogs : \A rng \in RDraws :
    \A chosenIndex \in 0..(Cardinality(c.ids) - 1) : \A pick2 \in 0..(MaxVariants - 1) :
       (Unforced(c) = c.ids /\ FreshGroup(c)) =>
          LET m == RunOutcome(c, 100, rng, chosenIndex, pick2)
              chosen == {x \in c.ids : m[x].assigned_variant # "0"}
          IN  /\ Cardinality(chosen) = 1
              /\ \A x \in chosen :
                    /\ m[x].assigned_variant \in NonZeroVariants
                    /\ m[x].type = "test"
                    /\ m[x].mode = "probabilistic"
                    /\ m[x].tested_variant = m[x].assigned_variant
              /\ \A x \in c.ids \ chosen :
                    /\ m[x].assigned_variant = "0"
                    /\ m[x].mode = "excluded"
                    /\ m[x].tested_variant = "excluded"
              /\ Cardinality(c.ids) = 1 => chosen = c.ids

\* a run has just assigned both tests of group global: one is the chosen test,
\* the other is excluded
C24_Witness ==
    /\ last.op = "assignGroup"
    /\ \E x \in TestIds : \E y \in TestIds \ {x} :
          /\ {x, y} \subseteq DOMAIN assignments
          /\ assignments[x].timestamp = now /\ assignments[y].timestamp = now
          /\ assignments[x].pageGroup = "global" /\ assignments[y].pageGroup = "global"
          /\ assignments[x].mode = "probabilistic"
          /\ assignments[x].assigned_variant = "2"
          /\ assignments[x].tested_variant = "2"
          /\ assignments[y].mode = "excluded"
          /\ assignments[y].tested_variant = "excluded"

\* C25: when the draw r is not below the fraction (always with traffic 0), a
\* run gives every unforced test without a prior assignment "0", control,
\* pure-control; and where the group then holds no non-zero assignment every
\* tested_variant of the group is "0".
C25_OutOfExperiment ==
    \A c \in Catalogs : \A traffic \in TrafficValues : \A rng \in RDraws :
       (Unforced(c) # {} /\ rng >= traffic) =>
          LET m == RunOutcome(c, traffic, rng, 0, 0)
              members == {y \in DOMAIN m : GroupKey(m[y]) = GroupOf(c)}
          IN  /\ \A x \in Unforced(c) :
                    NoPrior(x) =>
                       /\ m[x].assigned_variant = "0"
                       /\ m[x].type = "control"
                       /\ m[x].mode = "pure-control"
              /\ (\A y \in members : m[y].assigned_variant = "0") =>
                    \A y \in members : m[y].tested_variant = "0"

\* a run has just put both tests of a group out of the experiment
C25_Witness ==
    /\ last.op = "assignGroup"
    /\ \A x \in TestIds :
          /\ x \in DOMAIN assignments
          /\ assignments[x].timestamp = now
          /\ assignments[x].mode = "pure-control"
          /\ assignments[x].type = "control"
          /\ assignments[x].assigned_variant = "0"
          /\ assignments[x].tested_variant = "0"

\* the assignment of a test pinned to variant v
IsPinned(a, v) ==
    /\ a.assigned_variant = v
    /\ a.type = (IF v = "0" THEN "control" ELSE "test")
    /\ a.mode = (IF v = "0" THEN "forced-0" ELSE "forced")

Forced(c) == c.ids \ Unforced(c)

\* C26: after a run every forced test of the group holds its pinned variant,
\* with type control and mode forced-0 for "0" and type test and mode forced
\* otherwise, whatever the traffic and the draws are.
C26_ForcedGetsPinned ==
    \A c \in Catalogs : \A traffic \in TrafficValues : \A rng \in RDraws :
    \A chosenIndex \in 0..1 : \A pick2 \in 0..(MaxVariants - 1) :
       LET m == RunOutcome(c, traffic, rng, chosenIndex, pick2)
       IN  \A x \in Forced(c) : IsPinned(m[x], StripV(c.modeOf[x]))

\* C26 (amended): after a run every forced test of the group that had no valid
\* assignment holds its pinned variant, with type control and mode forced-0
\* for "0" and type test and mode forced otherwise, whatever the traffic and
\* the draws are; a forced test that had a valid assignment keeps it.
C26_ForcedGetsPinnedUnlessKept ==
    \A c \in Catalogs : \A traffic \in TrafficValues : \A rng \in RDraws :
    \A chosenIndex \in 0..1 : \A pick2 \in 0..(MaxVariants - 1) :
       LET m == RunOutcome(c, traffic, rng, chosenIndex, pick2)
       IN  \A x \in Forced(c) :
              IF NoPrior(x)
              THEN /\ IsPinned(m[x], StripV(c.modeOf[x]))
                   /\ m[x].timestamp = now
                   /\ m[x].pageGroup = GroupOf(c)
              ELSE \A f \in {"assigned_variant", "type", "mode", "pageGroup", "timestamp"} :
                      m[x][f] = assignments[x][f]

\* a run has just assigned one test pinned to "1" and one pinned to "0"
C26_Witness ==
    /\ last.op = "assignGroup"
    /\ \E x \in TestIds : \E y \in TestIds \ {x} :
          /\ {x, y} \subseteq DOMAIN assignments
          /\ assignments[x].timestamp = now /\ assignments[y].timestamp = now
          /\ IsPinned(assignments[x], "1")
          /\ IsPinned(assignments[y], "0")

----------------------------------------------------------------------------
(* Claims about the retry executor and a send *)

Last(sq) == sq[Len(sq)]

\* C27: withRetry calls the operation at most maxRetries (= retryAttempts)
\* times; it returns as soon as an attempt succeeds, with the result of that
\* attempt; a non-2xx response and a timeout are failed attempts; when every
\* attempt has failed it throws the error of the last attempt.
C27_RetryExecutor ==
    /\ retry.calls <= retry.config.maxRetries
    /\ \A i \in 1..(Len(retry.outcomes) - 1) : retry.outcomes[i] \in FailedOutcomes
    /\ retry.phase = "returned" =>
          /\ Last(retry.outcomes) = "ok"
          /\ retry.calls = Len(retry.outcomes)
          /\ retry.value = Body
    /\ (retry.outcomes # <<>> /\ Last(retry.outcomes) \in {"http", "timeout"}) =>
          retry.phase \in {"waiting", "calling", "threw"}
    /\ retry.phase = "threw" =>
          /\ retry.calls = retry.config.maxRetries
          /\ Len(retry.outcomes) = retry.config.maxRetries
          /\ \A i \in 1..Len(retry.outcomes) : retry.outcomes[i] \in FailedOutcomes
          /\ retry.value = AttemptError(Last(retry.outcomes))

\* withRetry has returned the result of its third attempt, after a non-2xx
\* response and a timeout
C27_Witness ==
    /\ retry.phase = "returned"
    /\ retry.outcomes = <<"http", "timeout", "ok">>
    /\ retry.calls = 3
    /\ retry.send = "resolved"

\* C28: the wait after failed attempt a (0-based) is
\* min(baseDelay * 2^a + jitter, maxDelay) with 0 <= jitter < 1000, so it is
\* never longer than maxDelay; there is no wait after the final attempt.
C28_BackoffDelay ==
    /\ \A i \in 1..Len(retry.waits) :
          /\ \E jitter \in 0..(JitterRange - 1) :
                retry.waits[i] =
                   Min(retry.config.baseDelay * 2^(i - 1) + jitter, retry.config.maxDelay)
          /\ retry.waits[i] <= retry.config.maxDelay
    /\ Len(retry.waits) <= retry.config.maxRetries - 1
    /\ retry.phase = "waiting" =>
          /\ Len(retry.waits) = Len(retry.outcomes)
          /\ Len(retry.outcomes) < retry.config.maxRetries
    /\ retry.phase = "threw" => Len(retry.waits) = retry.config.maxRetries - 1

\* every attempt has failed: the first wait was the base delay with jitter,
\* the second was cut to maxDelay, and no wait followed the final attempt
C28_Witness ==
    /\ retry.phase = "threw"
    /\ retry.config.maxRetries = 3
    /\ retry.waits = <<16500, MaxDelay>>

\* C29: when an attempt of sendEvents gets a 2xx response with a JSON body
\* before the timeout, sendEvents resolves and processQueue takes its success
\* path.
C29_SuccessResolves ==
    (retry.outcomes # <<>> /\ Last(retry.outcomes) = "ok") =>
        /\ retry.send = "resolved"
        /\ retry.path = "success"

----------------------------------------------------------------------------
(* Claims about the assignment store *)

ValidIds(m, t) == {x \in DOMAIN m : IsValid(m[x], t)}

ExpiredNotReturned ==
    \A x \in DOMAIN assignments :
       ~IsValid(assignments[x], now) => GetAssignment(assignments, x, now) = {}

\* C32: cleanup removes from the map exactly the assignments that are not
\* valid and leaves every valid assignment as it is, every field included; it
\* writes the records only if it removed something; getAssignment returns
\* null for an expired assignment, which stays in the map.
C32_CleanupFrame ==
    [][ /\ ExpiredNotReturned
        /\ last'.op = "cleanup" =>
              /\ DOMAIN assignments' = ValidIds(assignments, now)
              /\ \A x \in DOMAIN assignments' : assignments'[x] = assignments[x]
              /\ DOMAIN assignments' = DOMAIN assignments =>
                    (stored' = stored /\ activeTests' = activeTests) ]_vars

\* C32 (amended): cleanup removes from the map exactly the assignments that
\* are not valid and leaves assigned_variant, type, mode, pageGroup and
\* timestamp of every valid assignment as they are; when it removed something
\* it recalculates tested_variant and writes both records, otherwise it
\* changes and writes nothing; getAssignment returns null for an expired
\* assignment, which stays in the map.
C32_CleanupFrameRecalculated ==
    [][ /\ ExpiredNotReturned
        /\ last'.op = "cleanup" =>
              /\ DOMAIN assignments' = ValidIds(assignments, now)
              /\ \A x \in DOMAIN assignments' :
                    \A f \in {"testId", "assigned_variant", "type", "mode", "pageGroup",
                              "timestamp"} :
                       assignments'[x][f] = assignments[x][f]
              /\ DOMAIN assignments' = DOMAIN assignments =>
                    (assignments' = assignments /\ stored' = stored
                     /\ activeTests' = activeTests)
              /\ DOMAIN assignments' # DOMAIN assignments =>
                    /\ assignments' = RecalculateTestedVariants(assignments')
                    /\ DOMAIN stored' = DOMAIN assignments'
                    /\ DOMAIN activeTests' = DOMAIN assignments' ]_vars

\* cleanup has just removed an expired assignment and kept a valid one, whose
\* tested_variant is "0" now that it is alone in its group
C32_Witness ==
    /\ last.op = "cleanup"
    /\ Cardinality(DOMAIN assignments) = 1
    /\ \A x \in DOMAIN assignments :
          /\ assignments[x].timestamp < now
          /\ IsValid(assignments[x], now)
          /\ assignments[x].tested_variant = "0"
          /\ x \in DOMAIN stored
    /\ now >= EXPIRY

\* C33: when a localStorage call throws during setAssignment, cleanup, the
\* loading of the assignments, persistQueue or the adoption of the persisted
\* queue, the call completes without an error, and the map or the queue in
\* memory holds what the operation gives: the map after setAssignment or
\* cleanup is the one a working storage gives, persistQueue leaves the queue
\* as it is, and a load leaves the map and the queue with what was read, or
\* empty. (Every step but queueEvent sets last; queueEvent advances nextEvent.)
C33_StorageErrorsAbsorbed ==
    [][ /\ (nextEvent' = nextEvent /\ last'.op # "show") => last'.error = Undefined
        /\ (last'.op = "setAssignment" /\ nextEvent' = nextEvent) =>
              \E call \in StorageCalls :
                 assignments' = SetAssignmentOp(State, call[1], call[2], now).a
        /\ (last'.op = "cleanup" /\ nextEvent' = nextEvent) =>
              assignments' = CleanupOp(State, now).a
        /\ (last'.op = "persistQueue" /\ nextEvent' = nextEvent) => queue' = queue
        /\ (last'.op = "load" /\ nextEvent' = nextEvent) =>
              /\ assignments' \in {SetupCore(stored, FALSE, now).a, EmptyMap}
              /\ queue' \in {persisted, <<>>} ]_vars

\* setAssignment has completed although the write of the assignments record
\* failed: the map holds the valid assignment of t1, the record does not
C33_Witness ==
    /\ last.op = "setAssignment"
    /\ last.error = Undefined
    /\ "t1" \in ValidIds(assignments, now)
    /\ "t1" \notin DOMAIN stored

----------------------------------------------------------------------------
(* Claims about the singletons *)

\* C34: constructing AssignmentManager or PostgresReporter again while an
\* instance exists returns that instance: the assignment map and its durable
\* records, the pending queue, the dedup map, the rate limiter, the flags of
\* the sender and the number of intervals and listeners are those of the
\* first instance, and no second instance is recorded
C34_SingleInstance ==
    [][ /\ (lastOp' = "newAssignmentManager" /\ instance.manager) =>
              UNCHANGED <<instance, assignments, stored, activeTests, queue,
                          processedEvents>>
        /\ (lastOp' = "newPostgresReporter" /\ instance.reporter) =>
              UNCHANGED <<instance, assignments, stored, activeTests, queue, persisted,
                          processedEvents, requests, suspended, isProcessing,
                          failedAttempts, active, listeners>> ]_vars

\* a reporter was constructed again while the first instance held an
\* assignment, a pending event and a dedup entry
C34_Witness ==
    /\ last.op = "newPostgresReporter"
    /\ last.again
    /\ DOMAIN assignments # {}
    /\ queue # <<>>
    /\ DOMAIN processedEvents # {}

----------------------------------------------------------------------------
(* Claims about the snapshot after a delivery *)

\* C35: an event that was delivered and removed from the queue is never
\* adopted again from the snapshot by a later page load
C35_DeliveredNotAdopted ==
    [][ lastOp' = "load" =>
           \A i \in 1..Len(delivered) : ~InSeq(queue', delivered[i]) ]_vars

----------------------------------------------------------------------------
(* Claims about interleaved calls of the tracking API *)

\* C36: of two interleaved calls of the deduplicated path with the same key
\* at most one enqueues its event: a call that was suspended in queueEvent and
\* goes on while its key is marked as processed by the other call does not
\* append its event
C36_CheckAndMarkAtomic ==
    [][ (lastOp' = "resume" /\ IsDuplicate(processedEvents, result'.evt, now)) =>
           (events' = events /\ queue' = queue) ]_vars

\* C37: the dedup key distinguishes tests: an impression is treated as a
\* duplicate only of an impression of the same test (with the same session,
\* event name and client timestamp), never of one of another test
C37_KeyDistinguishesTests ==
    [][ (lastOp' = "trackImpression" /\ result'.out = "duplicate") =>
           \E i \in 1..Len(events) :
              /\ events[i].event_name = result'.input.event_name
              /\ events[i].session_id = result'.input.session_id
              /\ events[i].client_timestamp = result'.input.client_timestamp
              /\ events[i].event_test_id = result'.input.event_test_id ]_vars

----------------------------------------------------------------------------
(* Claims about the attribution of the returned assignments *)

\* the valid assignments of the group of a whose assigned variant is not "0"
ValidNonZeroOf(a) ==
    {x \in ValidIds(assignments, now) :
        /\ GroupKey(assignments[x]) = GroupKey(a)
        /\ assignments[x].assigned_variant # "0"}

\* C38: the tested_variant of every assignment that getAssignment or
\* getAllAssignments returns is the attribution rule applied to the currently
\* valid assignments of its page-group; expired assignments that are still in
\* the map do not count
C38_ReturnedAttribution ==
    /\ \A a \in GetAllAssignments(assignments, now) :
          a.tested_variant = TestedVariantRule(Cardinality(ValidNonZeroOf(a)), a)
    /\ \A x \in TestIds :
          \A a \in GetAssignment(assignments, x, now) :
             a.tested_variant = TestedVariantRule(Cardinality(ValidNonZeroOf(a)), a)

----------------------------------------------------------------------------
(* Claims about the order of the queue *)

\* C39: events are appended to the queue in the order of the calls of
\* queueEvent: the event of a call is not appended while the caller of an
\* earlier call still waits in the rate limiter
C39_AppendedInCallOrder ==
    [][ (lastOp' = "queueEvent" /\ events' # events) => suspended = <<>> ]_vars

----------------------------------------------------------------------------
(* Claims about the failure counter *)

\* C40: in every reachable state 0 <= failedAttempts <=
\* maxConsecutiveFailures, whatever the interleaving of ticks, failed sends,
\* cooldown timers and visibility changes
C40_FailedAttemptsBounded ==
    /\ 0 <= failedAttempts
    /\ failedAttempts <= MaxConsecutiveFailures

\* a send has just failed and brought the counter to the ceiling while more
\* than one interval runs
C40_Witness ==
    /\ lastOp = "sendFail"
    /\ failedAttempts = MaxConsecutiveFailures
    /\ active > 1

====
